---- MODULE Spec2Model ----
(***************************************************************************)
(* Pellet Sales Management System: a model of the query builder, the       *)
(* aggregation and tax arithmetic, the date validation, the result cache   *)
(* and connection handling of SalesDataProcessor, the search dialog and    *)
(* the sales-entry window.                                                 *)
(*                                                                         *)
(* Texts (Python str) are sequences of strings: a literal of the source is *)
(* one element, a user-supplied text is a sequence of one-character        *)
(* strings, and concatenation is \o.  The empty sequence is the empty      *)
(* string; for a date it also stands for None (both are falsy).            *)
(***************************************************************************)
EXTENDS Integers, Sequences, FiniteSets, TLC

(* ------------------------------ bounds -------------------------------- *)

\* longest branch / document-type / product list of a filter object
MaxList == 2
\* longest document-number text of a filter object
MaxDocLen == 2
\* most result rows handed to an aggregation
MaxRows == 3
\* most records handed to a product summary
MaxRecords == 2

(* ------------------------------- state -------------------------------- *)

VARIABLES
    qb_pc,          \* "ready": filters chosen, "done": build_search_query returned
    qb_filters,     \* the filter object of the call
    qb_result,      \* the returned (query, parameters)
    query_cache     \* DatabaseQueryBuilder.query_cache, the entries stored

qbVars == <<qb_pc, qb_filters, qb_result, query_cache>>

VARIABLES
    agg_pc,         \* "ready": rows fetched, "done": the aggregation returned
    agg_rows,       \* the result rows (raw_data / monthly_data)
    agg_result      \* the branch structure: {'osorno': ..., 'union': ...}

aggVars == <<agg_pc, agg_rows, agg_result>>

VARIABLES
    tax_pc,         \* "ready": an input chosen, "done": the computation returned
    tax_input,      \* the arguments of the tax computation
    tax_result      \* what it returned (or displayed)

taxVars == <<tax_pc, tax_input, tax_result>>

VARIABLES
    privilege_level,    \* SalesEntryWindow.privilege_level
    form,               \* the widgets of the sales form, by attribute name
    last_insert         \* the parameters of the last INSERT INTO DailySales

salesVars == <<privilege_level, form, last_insert>>

VARIABLES
    date_pc,        \* "ready": arguments chosen, "done": validate_date_range returned
    date_args,      \* start_date, end_date and business_start of the call
    today,          \* date.today()
    date_valid      \* the value returned

dateVars == <<date_pc, date_args, today, date_valid>>

VARIABLES
    proc_pc,            \* "new": SalesDataProcessor not constructed yet, "ready"
    now,                \* datetime.now(), in seconds
    data_cache,         \* SalesDataProcessor.data_cache
    last_cache_update,  \* SalesDataProcessor.last_cache_update
    open_connections,   \* connections opened by conectar() and not closed
    last_call           \* the last operation: the queries it sent, what it returned

procVars == <<proc_pc, now, data_cache, last_cache_update, open_connections, last_call>>

VARIABLES
    dialog,             \* "none": no AdvancedSearchSystem, "open", "closed"
    document_input,     \* the text of the document-number field
    date_filter,        \* start_date_filter and end_date_filter, in days
    selected_branches,  \* AdvancedSearchSystem.selected_branches
    current_results,    \* AdvancedSearchSystem.current_results
    search_timer,       \* the single-shot QTimer: active, milliseconds left
    debounce,           \* the calls of _trigger_search and the searches since
    last_search,        \* what the last _execute_search did
    last_validation,    \* the last call of validate_input and what it returned
    search_button,      \* the Search button: its text, and whether it is enabled
    export_button,      \* whether the Export button is enabled
    database_connection,\* the dialog's connection: "none", "open" or "closed"
    after_close         \* how the dialog was closed, and what ran afterwards

controlVars == <<search_button, export_button, database_connection, after_close>>

searchVars == <<dialog, document_input, date_filter, selected_branches,
                current_results, search_timer, debounce, last_search,
                last_validation, controlVars>>

VARIABLES
    process,            \* "running", or "aborted" by Qt
    ui_pc,              \* "events": the UI thread is in the event loop,
                        \* "animate_charts": it is inside animate_charts
    animation_enabled,  \* InteractiveChartsWindow.animation_enabled
    animation_thread,   \* the ChartAnimationThread: its state, its loop index
    emitted,            \* the signals emitted by run(), in order
    posted,             \* the signals queued for the UI thread
    status_label        \* the text of InteractiveChartsWindow.status_label

animVars == <<process, ui_pc, animation_enabled, animation_thread, emitted,
              posted, status_label>>

VARIABLES
    daily_sales,        \* DailySales: the number of rows of each (DocumentType, DocumentNumber)
    last_submission     \* the last _process_sale_entry followed against DailySales

docVars == <<daily_sales, last_submission>>

VARIABLES
    main_pc,            \* where main() is: "login", "version", "menu", "events",
                        \* "exec", "summary", "exited", "raised"
    user_privilege,     \* login_window.privilegio
    database_version,   \* what get_current_version returned
    version_call,       \* get_current_version: what it did with its connection
    buttons,            \* which buttons of the menu are enabled
    notice_shown,       \* the update notice has been shown
    main_visible,       \* main_window.isVisible()
    navigation_result,  \* main_window.navigation_result
    open_windows,       \* the secondary windows that are open
    last_navigation,    \* the last navigation_result handled by the loop
    exception           \* the exception that ended main(), or "none"

mainVars == <<main_pc, user_privilege, database_version, version_call, buttons,
              notice_shown, main_visible, navigation_result, open_windows,
              last_navigation, exception>>

\* SalesDashboard (sales_dashboard.py): the date selection, the calendar's
\* selected date, and the last monthly load
VARIABLES
    dashboard,        \* [start_date, end_date, selected]
    last_selection,   \* the last selectionChanged: [date, shift]
    monthly_load      \* the last monthly aggregation: [source, range, months]

dashVars == <<dashboard, last_selection, monthly_load>>

\* RealtimeDataManager (interactive_charts.py)
VARIABLES
    data_buffer,        \* series name -> the points kept, oldest first
    update_callbacks,   \* the registered callbacks, in order of registration
    callback_calls,     \* how often each registered callback was called
    history,            \* series name -> every point ever added, in order
    registered_at,      \* the number of points added before each registration
    feeds               \* the number of long feeds so far

rtVars == <<data_buffer, update_callbacks, callback_calls, history,
            registered_at, feeds>>

vars == <<qbVars, aggVars, taxVars, salesVars, dateVars, procVars, searchVars, animVars, docVars, mainVars, dashVars, rtVars>>

\* what each component leaves alone
exceptQb == <<aggVars, taxVars, salesVars, dateVars, procVars, searchVars, animVars, docVars, mainVars, dashVars, rtVars>>
exceptAgg == <<qbVars, taxVars, salesVars, dateVars, procVars, searchVars, animVars, docVars, mainVars, dashVars, rtVars>>
exceptTax == <<qbVars, aggVars, salesVars, dateVars, procVars, searchVars, animVars, docVars, mainVars, dashVars, rtVars>>
exceptSales == <<qbVars, aggVars, taxVars, dateVars, procVars, searchVars, animVars, docVars, mainVars, dashVars, rtVars>>
exceptDate == <<qbVars, aggVars, taxVars, salesVars, procVars, searchVars, animVars, docVars, mainVars, dashVars, rtVars>>
exceptProc == <<qbVars, aggVars, taxVars, salesVars, dateVars, searchVars, animVars, docVars, mainVars, dashVars, rtVars>>
exceptSearch == <<qbVars, aggVars, taxVars, salesVars, dateVars, procVars, animVars, docVars, mainVars, dashVars, rtVars>>
exceptAnim == <<qbVars, aggVars, taxVars, salesVars, dateVars, procVars, searchVars, docVars, mainVars, dashVars, rtVars>>
exceptDoc == <<qbVars, aggVars, taxVars, salesVars, dateVars, procVars, searchVars, animVars, mainVars, dashVars, rtVars>>
exceptSalesDoc == <<qbVars, aggVars, taxVars, dateVars, procVars, searchVars, animVars, mainVars, dashVars, rtVars>>
exceptMain == <<qbVars, aggVars, taxVars, salesVars, dateVars, procVars, searchVars, animVars, docVars, dashVars, rtVars>>
exceptDash == <<qbVars, aggVars, taxVars, salesVars, dateVars, procVars, searchVars, animVars, docVars, mainVars, rtVars>>
exceptRt == <<qbVars, aggVars, taxVars, salesVars, dateVars, procVars, searchVars, animVars, docVars, mainVars, dashVars>>

(* --------------------------- generic helpers --------------------------- *)

\* all sequences over S of length at most n
SeqsUpTo(S, n) == UNION {[1..k -> S] : k \in 0..n}

\* v occurs in text as a contiguous, non-empty piece
Contains(text, v) ==
    /\ v # <<>>
    /\ \E i \in 1..(Len(text) - Len(v) + 1) : SubSeq(text, i, i + Len(v) - 1) = v

\* sep.join(parts), parts a sequence of texts
RECURSIVE Join(_, _)
Join(sep, parts) ==
    IF parts = <<>> THEN <<>>
    ELSE IF Len(parts) = 1 THEN parts[1]
    ELSE parts[1] \o sep \o Join(sep, Tail(parts))

\* str.strip(): leading and trailing whitespace removed
IsSpace(c) == c = " "

RECURSIVE LStrip(_)
LStrip(s) == IF s # <<>> /\ IsSpace(s[1]) THEN LStrip(Tail(s)) ELSE s

RECURSIVE RStrip(_)
RStrip(s) ==
    IF s # <<>> /\ IsSpace(s[Len(s)]) THEN RStrip(SubSeq(s, 1, Len(s) - 1)) ELSE s

Strip(s) == RStrip(LStrip(s))

(* ===================== decimal and float arithmetic ==================== *)
(* Python's Decimal (radix 10, getcontext().prec significant digits) and   *)
(* float (radix 2, 53 significant bits) round every result to the nearest  *)
(* representable value, ties to even.  A number is [neg, c, e]:            *)
(* (-1)^neg * c * radix^e.  Its coefficient c is a natural held as a       *)
(* sequence of limbs, least significant first, each limb holding `group`   *)
(* digits of the radix, so that no value of the model is cut to the width  *)
(* of a machine integer.  A context is [radix, group, prec].               *)

RECURSIVE Pow(_, _)
Pow(b, n) == IF n = 0 THEN 1 ELSE b * Pow(b, n - 1)

\* the limb base of a context
Base(ctx) == Pow(ctx.radix, ctx.group)

\* a natural number as its limbs in base bb, least significant first
RECURSIVE FromNat(_, _)
FromNat(n, bb) == IF n = 0 THEN <<>> ELSE <<n % bb>> \o FromNat(n \div bb, bb)

RECURSIVE BNorm(_)
BNorm(x) ==
    IF x # <<>> /\ x[Len(x)] = 0 THEN BNorm(SubSeq(x, 1, Len(x) - 1)) ELSE x

RestOf(x) == IF x = <<>> THEN <<>> ELSE Tail(x)
DigitOf(x) == IF x = <<>> THEN 0 ELSE x[1]

RECURSIVE BAddC(_, _, _, _)
BAddC(x, y, carry, bb) ==
    IF x = <<>> /\ y = <<>>
    THEN (IF carry = 0 THEN <<>> ELSE <<carry>>)
    ELSE LET s == DigitOf(x) + DigitOf(y) + carry
         IN  <<s % bb>> \o BAddC(RestOf(x), RestOf(y), s \div bb, bb)

BAdd(x, y, bb) == BAddC(x, y, 0, bb)

\* x - y for x >= y
RECURSIVE BSubC(_, _, _, _)
BSubC(x, y, borrow, bb) ==
    IF x = <<>> THEN <<>>
    ELSE LET d == x[1] - DigitOf(y) - borrow
         IN  IF d < 0 THEN <<d + bb>> \o BSubC(Tail(x), RestOf(y), 1, bb)
             ELSE <<d>> \o BSubC(Tail(x), RestOf(y), 0, bb)

BSub(x, y, bb) == BNorm(BSubC(x, y, 0, bb))

RECURSIVE BCmpAt(_, _, _)
BCmpAt(x, y, i) ==
    IF i = 0 THEN 0
    ELSE IF x[i] # y[i] THEN (IF x[i] < y[i] THEN -1 ELSE 1)
    ELSE BCmpAt(x, y, i - 1)

\* -1, 0, 1 as x <, =, > y
BCmp(x, y) ==
    IF Len(x) # Len(y) THEN (IF Len(x) < Len(y) THEN -1 ELSE 1)
    ELSE BCmpAt(x, y, Len(x))

RECURSIVE BMulC(_, _, _, _)
BMulC(x, k, carry, bb) ==
    IF x = <<>> THEN FromNat(carry, bb)
    ELSE LET s == x[1] * k + carry
         IN  <<s % bb>> \o BMulC(Tail(x), k, s \div bb, bb)

\* x * k for a one-limb k
BMulSmall(x, k, bb) == BNorm(BMulC(x, k, 0, bb))

\* x * bb^n
LimbShift(x, n) == IF x = <<>> THEN <<>> ELSE [i \in 1..n |-> 0] \o x

RECURSIVE BMul(_, _, _)
BMul(x, y, bb) ==
    IF y = <<>> THEN <<>>
    ELSE BAdd(BMulSmall(x, y[1], bb), LimbShift(BMul(x, Tail(y), bb), 1), bb)

\* the next quotient limb: the largest d in lo..hi with d * y <= r
RECURSIVE QDigit(_, _, _, _, _)
QDigit(r, y, lo, hi, bb) ==
    IF lo = hi THEN lo
    ELSE LET mid == (lo + hi + 1) \div 2
         IN  IF BCmp(BMulSmall(y, mid, bb), r) <= 0
             THEN QDigit(r, y, mid, hi, bb)
             ELSE QDigit(r, y, lo, mid - 1, bb)

\* long division, from the most significant limb of x down
RECURSIVE BDivStep(_, _, _, _, _, _)
BDivStep(x, i, r, q, y, bb) ==
    IF i = 0 THEN [q |-> BNorm(q), r |-> r]
    ELSE LET r1 == BNorm(<<x[i]>> \o r)
             d == QDigit(r1, y, 0, bb - 1, bb)
         IN  BDivStep(x, i - 1, BSub(r1, BMulSmall(y, d, bb), bb),
                      <<d>> \o q, y, bb)

\* quotient and remainder of x by y # 0
BDivMod(x, y, bb) == BDivStep(x, Len(x), <<>>, <<>>, y, bb)

\* the number of radix digits of a limb
RECURSIVE SmallDigits(_, _)
SmallDigits(n, radix) == IF n = 0 THEN 0 ELSE 1 + SmallDigits(n \div radix, radix)

\* the number of radix digits of c
NumDigits(c, ctx) ==
    IF c = <<>> THEN 0
    ELSE (Len(c) - 1) * ctx.group + SmallDigits(c[Len(c)], ctx.radix)

\* c * radix^n
ShiftDigits(c, n, ctx) ==
    LimbShift(BMulSmall(c, Pow(ctx.radix, n % ctx.group), Base(ctx)),
              n \div ctx.group)

\* the number (-1)^neg * c * radix^e
Num(neg, c, e) == [neg |-> neg /\ c # <<>>, c |-> c, e |-> e]

\* an integer as a number
FromInt(n, ctx) == Num(n < 0, FromNat(IF n < 0 THEN -n ELSE n, Base(ctx)), 0)

IsZero(x) == x.c = <<>>
Neg(x) == Num(~x.neg, x.c, x.e)
Abs(x) == Num(FALSE, x.c, x.e)

\* c * radix^e cut to ctx.prec digits, ties to even; sticky says that the
\* exact value lies above c * radix^e by less than one unit of c
RoundTo(neg, c, e, sticky, ctx) ==
    IF NumDigits(c, ctx) <= ctx.prec THEN Num(neg, c, e)
    ELSE LET k == NumDigits(c, ctx) - ctx.prec
             unit == ShiftDigits(<<1>>, k, ctx)
             qr == BDivMod(c, unit, Base(ctx))
             cmp == BCmp(BMulSmall(qr.r, 2, Base(ctx)), unit)
             up == \/ cmp > 0
                   \/ cmp = 0 /\ (sticky \/ qr.q[1] % 2 = 1)
             r == IF up THEN BAdd(qr.q, <<1>>, Base(ctx)) ELSE qr.q
         IN  IF NumDigits(r, ctx) > ctx.prec
             THEN Num(neg, BDivMod(r, <<ctx.radix>>, Base(ctx)).q, e + k + 1)
             ELSE Num(neg, r, e + k)

\* x + y, exact
ExactAdd(x, y, ctx) ==
    LET e == IF x.e < y.e THEN x.e ELSE y.e
        cx == ShiftDigits(x.c, x.e - e, ctx)
        cy == ShiftDigits(y.c, y.e - e, ctx)
    IN  IF x.neg = y.neg THEN Num(x.neg, BAdd(cx, cy, Base(ctx)), e)
        ELSE IF BCmp(cx, cy) >= 0 THEN Num(x.neg, BSub(cx, cy, Base(ctx)), e)
        ELSE Num(y.neg, BSub(cy, cx, Base(ctx)), e)

ExactSub(x, y, ctx) == ExactAdd(x, Neg(y), ctx)
ExactMul(x, y, ctx) == Num(x.neg # y.neg, BMul(x.c, y.c, Base(ctx)), x.e + y.e)

\* -1, 0, 1 as x <, =, > y
Cmp(x, y, ctx) ==
    LET d == ExactSub(x, y, ctx)
    IN  IF IsZero(d) THEN 0 ELSE IF d.neg THEN -1 ELSE 1

\* the rounded operations of a context
FAdd(x, y, ctx) ==
    LET s == ExactAdd(x, y, ctx) IN RoundTo(s.neg, s.c, s.e, FALSE, ctx)

FMul(x, y, ctx) ==
    LET m == ExactMul(x, y, ctx) IN RoundTo(m.neg, m.c, m.e, FALSE, ctx)

FDiv(x, y, ctx) ==
    IF IsZero(x) THEN Num(FALSE, <<>>, 0)
    ELSE LET need == ctx.prec + 1 + NumDigits(y.c, ctx) - NumDigits(x.c, ctx)
             s == IF need > 0 THEN need ELSE 0
             qr == BDivMod(ShiftDigits(x.c, s, ctx), y.c, Base(ctx))
         IN  RoundTo(x.neg # y.neg, qr.q, x.e - s - y.e, qr.r # <<>>, ctx)

\* decimal.getcontext().prec = 10 (data_processor.py line 48)
DecimalCtx == [radix |-> 10, group |-> 4, prec |-> 10]
\* IEEE 754 binary64, Python's float
FloatCtx == [radix |-> 2, group |-> 13, prec |-> 53]

(* ======================= DatabaseQueryBuilder ========================== *)

\* a Python value that is a str, and one that is not (None, an int, ...)
Str(s) == [isStr |-> TRUE, text |-> s]
NonStr == [isStr |-> FALSE, text |-> <<>>]

base_query ==
    <<"SELECT VentaID, Articulo, PuntoVenta, Fecha, TipoDocumento, NumeroDocumento, Unidad, KilosTotales, ValorUnitario, Descuento, Neto, IVA, Total, NetoPorKG, Pago, NumeroComprobante, MedioPago FROM VentasDiarias">>

\* ', '.join(['%s'] * n)
Placeholders(n) == Join(<<", ">>, [i \in 1..n |-> <<"%s">>])

\* "<column> IN (<placeholders>)"
InCondition(column, n) == <<column>> \o <<" IN (">> \o Placeholders(n) \o <<")">>

\* the date condition and its parameters (lines 105-114)
DateConditions(f) ==
    IF f.start_date # <<>> /\ f.end_date # <<>>
    THEN IF f.start_date = f.end_date
         THEN [conditions |-> << <<"Fecha = %s">> >>,
               parameters |-> <<f.start_date>>]
         ELSE [conditions |-> << <<"Fecha BETWEEN %s AND %s">> >>,
               parameters |-> <<f.start_date, f.end_date>>]
    ELSE [conditions |-> <<>>, parameters |-> <<>>]

\* the branch condition (lines 117-121)
BranchConditions(f) ==
    IF Len(f.branches) > 0
    THEN [conditions |-> <<InCondition("PuntoVenta", Len(f.branches))>>,
          parameters |-> f.branches]
    ELSE [conditions |-> <<>>, parameters |-> <<>>]

HasTodo(list) == \E i \in 1..Len(list) : list[i] = <<"Todo">>

\* a list condition that takes "Todo" for a value like any other
TodoAsValue(column, list) ==
    IF Len(list) > 0
    THEN [conditions |-> <<InCondition(column, Len(list))>>,
          parameters |-> list]
    ELSE [conditions |-> <<>>, parameters |-> <<>>]

\* the document-type and product conditions (lines 124-135)
ListConditions(column, list) ==
    IF Len(list) > 0 /\ ~HasTodo(list)
    THEN [conditions |-> <<InCondition(column, Len(list))>>,
          parameters |-> list]
    ELSE [conditions |-> <<>>, parameters |-> <<>>]

\* As DocNumberConditions below, with the document number written into the
\* text instead of passed as a parameter.
DocNumberInterpolated(f) ==
    LET doc_number == Strip(f.document_number.text)
    IN  IF doc_number # <<>>
        THEN [conditions |-> << <<"NumeroDocumento = '">> \o doc_number \o <<"'">> >>,
              parameters |-> <<>>]
        ELSE [conditions |-> <<>>, parameters |-> <<>>]

\* the document-number condition (lines 138-141), for a str document number
DocNumberConditions(f) ==
    LET doc_number == Strip(f.document_number.text)
    IN  IF doc_number # <<>>
        THEN [conditions |-> << <<"NumeroDocumento = %s">> >>,
              parameters |-> <<doc_number>>]
        ELSE [conditions |-> <<>>, parameters |-> <<>>]

\* a handler that returns the query without any condition
MatchAllFallback == [query |-> base_query \o <<" WHERE 1=1">>, parameters |-> <<>>]

\* the except clause (lines 160-162): the base query that matches no row
safe_fallback == [query |-> base_query \o <<" WHERE 1=0">>, parameters |-> <<>>]

\* build_search_query: the returned (query, parameters); a document number
\* that is not a str makes .strip() raise, and the handler returns the
\* fallback.
build_search_query(f) ==
    IF ~f.document_number.isStr
    THEN safe_fallback
    ELSE
    LET d == DateConditions(f)
        b == BranchConditions(f)
        t == ListConditions("TipoDocumento", f.document_types)
        p == ListConditions("Articulo", f.products)
        n == DocNumberConditions(f)
        conditions == d.conditions \o b.conditions \o t.conditions
                        \o p.conditions \o n.conditions
        parameters == d.parameters \o b.parameters \o t.parameters
                        \o p.parameters \o n.parameters
        where_clause == IF conditions # <<>>
                        THEN Join(<<" AND ">>, conditions) ELSE <<"1=1">>
    IN  [query |-> base_query \o <<" WHERE ">> \o where_clause
                     \o <<" ORDER BY Fecha DESC, VentaID DESC">>,
         parameters |-> parameters]

(* the filter objects the builder is called with *)
DateValues == {<<>>, <<"2024-05-01">>, <<"2024-05-02">>}
BranchValues == {<<"Osorno">>, <<"La Unión">>}
TypeValues == {<<"Todo">>, <<"Factura">>}
ProductValues == {<<"Todo">>, <<"Pellet Bolsa 15 Kg (Retiro)">>}
DocChars == {" ", "1", "2"}
DocNumbers == {Str(s) : s \in SeqsUpTo(DocChars, MaxDocLen)} \cup {NonStr}

Filters ==
    [start_date : DateValues, end_date : DateValues,
     branches : SeqsUpTo(BranchValues, MaxList),
     document_types : SeqsUpTo(TypeValues, MaxList),
     products : SeqsUpTo(ProductValues, MaxList),
     document_number : DocNumbers]

NoFilters ==
    [start_date |-> <<>>, end_date |-> <<>>, branches |-> <<>>,
     document_types |-> <<>>, products |-> <<>>, document_number |-> Str(<<>>)]

NoResult == [query |-> <<>>, parameters |-> <<>>]

QbIdle ==
    /\ qb_pc = "idle"
    /\ qb_filters = NoFilters
    /\ qb_result = NoResult
    /\ query_cache = {}

QbInit ==
    /\ qb_pc = "ready"
    /\ qb_filters \in Filters
    /\ qb_result = NoResult
    /\ query_cache = {}

\* one call of build_search_query: the result is returned and cached
BuildSearchQuery ==
    /\ qb_pc = "ready"
    /\ qb_result' = build_search_query(qb_filters)
    /\ query_cache' = IF qb_filters.document_number.isStr
                      THEN query_cache \cup {build_search_query(qb_filters)}
                      ELSE query_cache
    /\ qb_pc' = "done"
    /\ UNCHANGED <<qb_filters, exceptQb>>

(* ================= SalesDataProcessor: aggregation ===================== *)

\* Decimal('0'), and the int 0 the quantity and ton totals start from
DecZero == Num(FALSE, <<>>, 0)

\* Decimal('1000')
Thousand == Num(FALSE, <<1000>>, 0)

ProductKeys == {"Pellet (venta local)", "Pellet (venta distribuidor)"}

\* the totals of one (branch, category), as initialised at lines 223-231
ZeroTotals ==
    [cantidad |-> DecZero, toneladas |-> DecZero,
     total_neto |-> DecZero, total_bruto |-> DecZero]

\* _get_empty_branch_data, and the structures both aggregations start from
EmptyBranchData ==
    [b \in {"osorno", "union"} |-> [k \in ProductKeys |-> ZeroTotals]]

\* product_categories['SALES_TYPE_MAP'].get(product, "Unknown"), with the
\* fallback categories of _get_fallback_categories
SalesTypeOf(product) ==
    CASE product = "Pellet Bolsa 15 Kg (Retiro)" -> "Local"
      [] product = "Pellet Bolsa 15 Kg (Despacho)" -> "Local"
      [] product = "Pellet Bolsa 15 Kg (Distribuidor)" -> "Distribuidor"
      [] OTHER -> "Unknown"

\* acc[key] += the record's quantity, tons, net and gross: each += is a
\* Decimal addition, rounded to the context's precision
AddRecord(totals, record) ==
    LET tons == FDiv(record.total_kilos, Thousand, DecimalCtx)
    IN  [cantidad |-> FAdd(totals.cantidad, record.total_cantidad, DecimalCtx),
         toneladas |-> FAdd(totals.toneladas, tons, DecimalCtx),
         total_neto |-> FAdd(totals.total_neto, record.total_neto, DecimalCtx),
         total_bruto |-> FAdd(totals.total_bruto, record.total_total, DecimalCtx)]

\* one pass of the loop body (lines 234-265 and 354-381)
AggregateRecord(acc, record) ==
    LET sales_type == SalesTypeOf(record.Articulo)
        product_key == IF sales_type = "Local" THEN "Pellet (venta local)"
                       ELSE "Pellet (venta distribuidor)"
    IN  IF sales_type \notin {"Local", "Distribuidor"} THEN acc
        ELSE IF record.PuntoVenta = "Osorno"
        THEN [acc EXCEPT !["osorno"][product_key] = AddRecord(@, record)]
        ELSE IF record.PuntoVenta = "La Unión"
        THEN [acc EXCEPT !["union"][product_key] = AddRecord(@, record)]
        ELSE acc

RECURSIVE AggregateRows(_, _)
AggregateRows(acc, rows) ==
    IF rows = <<>> THEN acc
    ELSE AggregateRows(AggregateRecord(acc, rows[1]), Tail(rows))

\* _aggregate_monthly_data(monthly_data, osorno_data, union_data)
aggregate_monthly_data(monthly_data, acc) == AggregateRows(acc, monthly_data)

\* _process_branch_sales_data(raw_data)
process_branch_sales_data(raw_data) == AggregateRows(EmptyBranchData, raw_data)

(* the rows of a GROUP BY PuntoVenta, Articulo result: two sets of sums, one
   of a large month (net 99,999,999.98, gross 118,999,999.98) and one of a
   single sale (net 1,000.04, gross 1,190.05) *)
RowSums ==
    {[total_kilos |-> Num(FALSE, <<0, 30>>, 0),
      total_cantidad |-> Num(FALSE, <<0, 2>>, 0),
      total_total |-> Num(FALSE, <<9998, 9999, 118>>, -2),
      total_neto |-> Num(FALSE, <<9998, 9999, 99>>, -2)],
     [total_kilos |-> Num(FALSE, <<15>>, 0),
      total_cantidad |-> Num(FALSE, <<1>>, 0),
      total_total |-> Num(FALSE, <<9005, 11>>, -2),
      total_neto |-> Num(FALSE, <<4, 10>>, -2)]}

RowBranches == {"Osorno", "La Unión", "Valdivia"}
RowProducts == {"Pellet Bolsa 15 Kg (Retiro)", "Pellet Bolsa 15 Kg (Distribuidor)",
                "Leña Saco"}

Rows ==
    {[PuntoVenta |-> b, Articulo |-> a, total_kilos |-> v.total_kilos,
      total_cantidad |-> v.total_cantidad, total_total |-> v.total_total,
      total_neto |-> v.total_neto] :
        b \in RowBranches, a \in RowProducts, v \in RowSums}

AggIdle ==
    /\ agg_pc = "idle"
    /\ agg_rows = <<>>
    /\ agg_result = <<>>

AggInit ==
    /\ agg_pc = "ready"
    /\ agg_rows \in SeqsUpTo(Rows, MaxRows)
    /\ agg_result = EmptyBranchData

\* get_sales_by_branch_data's processing of the fetched rows
ProcessBranchSalesData ==
    /\ agg_pc = "ready"
    /\ agg_result' = process_branch_sales_data(agg_rows)
    /\ agg_pc' = "done"
    /\ UNCHANGED <<agg_rows, exceptAgg>>

\* get_monthly_sales_by_branch_data's aggregation of one month's rows into
\* its freshly initialised structures
AggregateMonthlyData ==
    /\ agg_pc = "ready"
    /\ agg_result' = aggregate_monthly_data(agg_rows, agg_result)
    /\ agg_pc' = "done"
    /\ UNCHANGED <<agg_rows, exceptAgg>>

AggNext == ProcessBranchSalesData \/ AggregateMonthlyData

(* ================ data_processor: tax decomposition ==================== *)

\* Decimal(str(n)) scaled by 10^e, for an integer n
Decimal(n, e) ==
    Num(n < 0, FromNat(IF n < 0 THEN -n ELSE n, Base(DecimalCtx)), e)

\* x - y, rounded
FSub(x, y, ctx) == FAdd(x, Neg(y), ctx)

\* SalesDataProcessor.iva_rate, and the default of calculate_financial_metrics
iva_rate == Decimal(119, -2)
\* SalesDataProcessor.exchange_rate = Decimal(str(945.0))
exchange_rate == Decimal(9450, -1)

\* the dictionary of the except branch of calculate_financial_metrics
ZeroMetrics ==
    [bruto |-> DecZero, neto |-> DecZero, iva |-> DecZero, usd |-> DecZero]

\* calculate_financial_metrics(amount, exchange_rate, iva_rate); a division
\* by Decimal('0') raises and the except branch answers
calculate_financial_metrics(amount, rate, iva) ==
    IF IsZero(iva) \/ IsZero(rate) THEN ZeroMetrics
    ELSE LET neto == FDiv(amount, iva, DecimalCtx)
         IN  [bruto |-> amount,
              neto |-> neto,
              iva |-> FMul(neto, FSub(iva, Decimal(1, 0), DecimalCtx), DecimalCtx),
              usd |-> FDiv(amount, rate, DecimalCtx)]

\* product_categories['PELLET_PRODUCTS'] of _get_fallback_categories
\* (its VACAM_PRODUCTS is empty, so no "Total Vacam" entry is ever added)
PELLET_PRODUCTS ==
    <<"Pellet Bolsa 15 Kg (Retiro)", "Pellet Bolsa 15 Kg (Despacho)",
      "Pellet Bolsa 15 Kg (Distribuidor)">>

\* the entry a product gets when it is first met
NewSummaryEntry ==
    [cantidad |-> DecZero, total_bruto |-> DecZero, kilos |-> DecZero]

\* the first loop of process_monthly_sales_summary: per product, the sums
RECURSIVE SumByProduct(_, _)
SumByProduct(summary, raw_data) ==
    IF raw_data = <<>> THEN summary
    ELSE LET record == raw_data[1]
             product == record.producto
             old == IF product \in DOMAIN summary THEN summary[product]
                    ELSE NewSummaryEntry
             new == [cantidad |-> FAdd(old.cantidad, record.total_cantidad, DecimalCtx),
                     total_bruto |-> FAdd(old.total_bruto, record.total_total, DecimalCtx),
                     kilos |-> FAdd(old.kilos, record.total_kilos, DecimalCtx)]
         IN  SumByProduct([p \in DOMAIN summary \cup {product} |->
                              IF p = product THEN new ELSE summary[p]],
                          Tail(raw_data))

\* the second loop: total_neto, total_dolares and toneladas of an entry
WithFinancialMetrics(data) ==
    [cantidad |-> data.cantidad,
     total_bruto |-> data.total_bruto,
     kilos |-> data.kilos,
     total_neto |-> FDiv(data.total_bruto, iva_rate, DecimalCtx),
     total_dolares |-> FDiv(data.total_bruto, exchange_rate, DecimalCtx),
     toneladas |-> FDiv(data.kilos, Thousand, DecimalCtx)]

\* the sums of the pellet products of a summary, in PELLET_PRODUCTS order
RECURSIVE PelletTotal(_, _, _)
PelletTotal(summary, i, acc) ==
    IF i > Len(PELLET_PRODUCTS) THEN acc
    ELSE LET product == PELLET_PRODUCTS[i]
         IN  IF product \notin DOMAIN summary
             THEN PelletTotal(summary, i + 1, acc)
             ELSE PelletTotal(summary, i + 1,
                    [cantidad |-> FAdd(acc.cantidad, summary[product].cantidad, DecimalCtx),
                     total_bruto |-> FAdd(acc.total_bruto, summary[product].total_bruto, DecimalCtx),
                     kilos |-> FAdd(acc.kilos, summary[product].kilos, DecimalCtx)])

\* _add_category_totals(summary)
add_category_totals(summary) ==
    LET pellet_total == PelletTotal(summary, 1, NewSummaryEntry)
    IN  IF Cmp(pellet_total.cantidad, DecZero, DecimalCtx) > 0
        THEN [p \in DOMAIN summary \cup {"Total Pellet"} |->
                 IF p = "Total Pellet" THEN WithFinancialMetrics(pellet_total)
                 ELSE summary[p]]
        ELSE summary

\* process_monthly_sales_summary(raw_data)
process_monthly_sales_summary(raw_data) ==
    LET sums == SumByProduct(<<>>, raw_data)
    IN  add_category_totals([p \in DOMAIN sums |-> WithFinancialMetrics(sums[p])])

\* gross amounts: 0, 8500, 1190.05, -17000, 0.01 and 118999999.98
Amounts ==
    {DecZero, Decimal(8500, 0), Decimal(119005, -2), Decimal(-17000, 0),
     Decimal(1, -2), Num(FALSE, <<9998, 9999, 118>>, -2)}

\* the rows of a GROUP BY producto result
SummaryRecords ==
    {[producto |-> p, total_cantidad |-> Decimal(q, 0),
      total_kilos |-> Decimal(15 * q, 0), total_total |-> t] :
        p \in {"Pellet Bolsa 15 Kg (Retiro)", "Pellet Bolsa 15 Kg (Despacho)",
               "Leña Saco"},
        q \in {2},
        t \in {Decimal(17000, 0), Decimal(119005, -2),
               Num(FALSE, <<9998, 9999, 118>>, -2)}}

(* ========================= SalesEntryWindow ============================ *)

Digits == <<"0", "1", "2", "3", "4", "5", "6", "7", "8", "9">>
IsAsciiDigit(c) == \E d \in 1..10 : Digits[d] = c
DigitValue(c) == (CHOOSE d \in 1..10 : Digits[d] = c) - 1

\* str.isdigit(): every character is a digit, superscript digits included
isdigit(text) ==
    /\ text # <<>>
    /\ \A i \in 1..Len(text) : IsAsciiDigit(text[i]) \/ text[i] = "²"

RECURSIVE NatOfDigits(_, _)
NatOfDigits(text, acc) ==
    IF text = <<>> THEN acc
    ELSE NatOfDigits(Tail(text), 10 * acc + DigitValue(text[1]))

\* int(text): surrounding blanks and one sign are accepted, then decimal
\* digits only; anything else raises ValueError
ValueError == [ok |-> FALSE, value |-> 0]
PyInt(text) ==
    LET s == Strip(text)
        signed == s # <<>> /\ s[1] \in {"+", "-"}
        body == IF signed THEN Tail(s) ELSE s
    IN  IF body # <<>> /\ \A i \in 1..Len(body) : IsAsciiDigit(body[i])
        THEN [ok |-> TRUE,
              value |-> IF signed /\ s[1] = "-" THEN -NatOfDigits(body, 0)
                        ELSE NatOfDigits(body, 0)]
        ELSE ValueError

\* str(n) of an int
RECURSIVE NatText(_)
NatText(n) ==
    IF n < 10 THEN <<Digits[n + 1]>>
    ELSE NatText(n \div 10) \o <<Digits[(n % 10) + 1]>>
PyStr(n) == IF n < 0 THEN <<"-">> \o NatText(-n) ELSE NatText(n)

AbsInt(n) == IF n < 0 THEN -n ELSE n

\* the Products table: a bag sold by the unit, a product sold by weight, a
\* 3 kg bag, and a product that has no price
ProductBag == <<"Pellet Bolsa ", "15 Kg", " (Retiro)">>
ProductBulk == <<"Pellet ", "Bulk", " ", "15 Kg">>
ProductSawdust == <<"Sawdust Sanitary ", "3 kg">>
ProductDemo == <<"Demo Product 1">>
Products == <<ProductBag, ProductBulk, ProductSawdust, ProductDemo>>

\* SalesEntryWindow.product_pricing, as _load_product_pricing_data fills it
product_pricing ==
    (ProductBag :> 8500) @@ (ProductBulk :> 300) @@ (ProductSawdust :> 2500)

\* the items of the document type combo (_populate_document_types)
DocumentTypes(privilege) ==
    <<"Invoice">> \o
    (IF privilege = 11 THEN <<"Credit Note", "Debit Note">> ELSE <<>>)

\* the items of the payment method combo (_populate_payment_methods)
PaymentMethods(privilege) ==
    <<"Cash", "FREE SAMPLE">> \o
    (IF privilege = 11 THEN <<"Credit Note", "Debit Note">> ELSE <<>>)

Items(list) == {list[i] : i \in 1..Len(list)}

\* what a user types into the quantity and the discount field
QuantityTexts == {<<>>, <<"2">>, <<"²">>}
DiscountTexts == {<<"0">>, <<"9", "0", "0", "0">>, <<"x">>}

\* every gross total the stock above can give: a unit price less a
\* discount, times a quantity or a weight, of either sign
IntValues(texts) == {PyInt(t).value : t \in texts}
Multipliers ==
    UNION {{q, 3 * q, 15 * q} : q \in IntValues(QuantityTexts)}
GrossTotals ==
    {s * (p - d) * m :
        s \in {-1, 1},
        p \in {product_pricing[x] : x \in DOMAIN product_pricing} \cup {0},
        d \in IntValues(DiscountTexts),
        m \in Multipliers}

\* the float literals 1.19 and 0.19
Float119 == FDiv(FromInt(119, FloatCtx), FromInt(100, FloatCtx), FloatCtx)
Float019 == FDiv(FromInt(19, FloatCtx), FromInt(100, FloatCtx), FloatCtx)

\* the gross total multiplied by 1.19 where the source divides
NetByProduct(gross_total) == FMul(FromInt(gross_total, FloatCtx), Float119, FloatCtx)
\* net_amount = gross_total / 1.19
net_amount(gross_total) == FDiv(FromInt(gross_total, FloatCtx), Float119, FloatCtx)
\* tax_amount = net_amount * 0.19
tax_amount(net) == FMul(net, Float019, FloatCtx)

\* both, tabulated once over the gross totals
NetAmounts == [g \in GrossTotals |-> net_amount(g)]
TaxAmounts == [g \in GrossTotals |-> tax_amount(NetAmounts[g])]

\* net_per_kg = net_amount / total_weight if total_weight != 0 else 0
net_per_kg(net, total_weight) ==
    IF total_weight # 0 THEN FDiv(net, FromInt(total_weight, FloatCtx), FloatCtx)
    ELSE FromInt(0, FloatCtx)
NetPerKg ==
    [g \in GrossTotals, w \in {s * m : s \in {-1, 1}, m \in Multipliers} |->
        net_per_kg(NetAmounts[g], w)]

\* -abs(x) of a float
NegAbs(x) == Neg(Abs(x))

\* _update_financial_display(net, tax, total)
update_financial_display(f, net, tax, total) ==
    [f EXCEPT !.net_amount_label = net, !.tax_amount_label = tax,
              !.total_amount_label = total]

\* int(text) if text else 0, with ValueError answered by 0
IntOrZero(text) ==
    IF text # <<>> /\ PyInt(text).ok THEN PyInt(text).value ELSE 0

\* _calculate_financial_totals
calculate_financial_totals(f) ==
    LET product == f.product_combo
        document_type == f.document_type_combo
        zero == FromInt(0, FloatCtx)
    IN  IF f.payment_method_combo = "FREE SAMPLE"
        THEN update_financial_display(f, zero, zero, 0)
        ELSE IF product \notin DOMAIN product_pricing
        THEN update_financial_display(f, zero, zero, 0)
        ELSE LET final_unit_price == product_pricing[product] - IntOrZero(f.discount_edit)
                 quantity == IntOrZero(f.quantity_edit)
                 weight == IF isdigit(f.total_weight_edit)
                           THEN PyInt(f.total_weight_edit).value ELSE 0
                 total == IF Contains(product, <<"Bulk">>)
                          THEN final_unit_price * weight
                          ELSE final_unit_price * quantity
                 gross_total == IF document_type = "Credit Note" THEN -AbsInt(total)
                                ELSE IF document_type = "Debit Note" THEN AbsInt(total)
                                ELSE total
             IN  update_financial_display(f, NetAmounts[gross_total],
                                          TaxAmounts[gross_total], gross_total)

\* _calculate_totals
calculate_totals(f) ==
    LET product == f.product_combo
        quantity == IF isdigit(f.quantity_edit) /\ PyInt(f.quantity_edit).ok
                    THEN PyInt(f.quantity_edit).value ELSE 0
        weight == IF Contains(product, <<"15 Kg">>) THEN 15 * quantity
                  ELSE IF Contains(product, <<"3 kg">>) THEN 3 * quantity
                  ELSE 0
        total_weight == IF f.document_type_combo = "Credit Note"
                        THEN -AbsInt(weight) ELSE weight
    IN  calculate_financial_totals([f EXCEPT !.total_weight_edit = PyStr(total_weight)])

\* _update_pricing: apart from the unit price label, which is not part of
\* the form here, it recomputes the totals unless the product has no price
update_pricing(f) ==
    IF f.payment_method_combo = "FREE SAMPLE" THEN calculate_financial_totals(f)
    ELSE IF f.product_combo \in DOMAIN product_pricing
    THEN calculate_financial_totals(f)
    ELSE f

\* the form as _create_sales_form leaves it, and as _clear_form_fields
\* leaves it: index 0 everywhere, quantity and weight empty, discount "0",
\* the three amount labels showing zero.  (The slots the clearing triggers
\* on its way only write the weight and the labels, which lines 938 and
\* 943-945 overwrite afterwards.)
ClearedForm(privilege) ==
    [product_combo |-> Products[1],
     document_type_combo |-> DocumentTypes(privilege)[1],
     payment_method_combo |-> PaymentMethods(privilege)[1],
     quantity_edit |-> <<>>,
     total_weight_edit |-> <<>>,
     discount_edit |-> <<"0">>,
     net_amount_label |-> FromInt(0, FloatCtx),
     tax_amount_label |-> FromInt(0, FloatCtx),
     total_amount_label |-> 0]

clear_form_fields(f, privilege) == ClearedForm(privilege)

\* _validate_form_data, given the document number typed and the answer of
\* _is_document_unique
validate_form_data(f, document_number, unique) ==
    /\ f.quantity_edit # <<>>
    /\ isdigit(f.quantity_edit)
    /\ ~(document_number # <<"0">> /\ ~unique)

\* _collect_form_data raises ValueError unless every int() succeeds
CollectRaises(f) ==
    \/ ~PyInt(f.quantity_edit).ok
    \/ ~PyInt(f.total_weight_edit).ok
    \/ f.discount_edit # <<>> /\ ~PyInt(f.discount_edit).ok

collect_form_data(f, document_number) ==
    [product |-> f.product_combo,
     document_type |-> f.document_type_combo,
     document_number |-> document_number,
     quantity |-> PyInt(f.quantity_edit).value,
     total_weight |-> PyInt(f.total_weight_edit).value,
     discount |-> IF f.discount_edit # <<>> THEN PyInt(f.discount_edit).value ELSE 0]

\* the sign the saved floats take for a credit note; SignedNet and
\* SignedTax are -abs(net_amount) and -abs(tax_amount)
SignedNet(net, document_type) ==
    IF document_type = "Credit Note" THEN NegAbs(net) ELSE net
\* the tax left as computed, whatever the document type
UnsignedTax(tax, document_type) == tax
SignedTax(tax, document_type) ==
    IF document_type = "Credit Note" THEN NegAbs(tax) ELSE tax

\* the parameters _save_sale_to_database hands to the INSERT
sale_row(sale_data) ==
    LET product == sale_data.product
        unit_price == IF product \in DOMAIN product_pricing
                      THEN product_pricing[product] ELSE 0
        discount == sale_data.discount
        gross_total == IF Contains(product, <<"Bulk">>)
                       THEN (unit_price - discount) * sale_data.total_weight
                       ELSE (unit_price - discount) * sale_data.quantity
        credit == sale_data.document_type = "Credit Note"
    IN  [Product |-> product,
         DocumentType |-> sale_data.document_type,
         DocumentNumber |-> sale_data.document_number,
         Quantity |-> IF credit THEN -AbsInt(sale_data.quantity)
                      ELSE sale_data.quantity,
         TotalWeight |-> IF credit THEN -AbsInt(sale_data.total_weight)
                         ELSE sale_data.total_weight,
         UnitPrice |-> unit_price,
         Discount |-> discount,
         NetAmount |-> SignedNet(NetAmounts[gross_total], sale_data.document_type),
         TaxAmount |-> SignedTax(TaxAmounts[gross_total], sale_data.document_type),
         TotalAmount |-> IF credit THEN -AbsInt(gross_total) ELSE gross_total,
         NetPerKG |-> NetPerKg[gross_total, sale_data.total_weight]]

NoRow == [DocumentType |-> "none"]

DocumentNumbers == {<<"0">>, <<"7">>}
PrivilegeLevels == {10, 11}

SalesIdle ==
    /\ privilege_level = 0
    /\ form = ClearedForm(0)
    /\ last_insert = NoRow

SalesInit ==
    /\ privilege_level \in PrivilegeLevels
    /\ form = ClearedForm(privilege_level)
    /\ last_insert = NoRow

\* the user types a quantity: textChanged is connected to _calculate_totals
\* twice (lines 195 and 997)
EditQuantity ==
    \E text \in QuantityTexts :
        /\ text # form.quantity_edit
        /\ form' = calculate_totals(calculate_totals([form EXCEPT !.quantity_edit = text]))
        /\ UNCHANGED <<privilege_level, last_insert, exceptSales>>

\* the user picks a product: currentIndexChanged -> _calculate_totals
SelectProduct ==
    \E product \in Items(Products) :
        /\ product # form.product_combo
        /\ form' = calculate_totals([form EXCEPT !.product_combo = product])
        /\ UNCHANGED <<privilege_level, last_insert, exceptSales>>

\* the user picks a document type: no slot is connected
SelectDocumentType ==
    \E document_type \in Items(DocumentTypes(privilege_level)) :
        /\ document_type # form.document_type_combo
        /\ form' = [form EXCEPT !.document_type_combo = document_type]
        /\ UNCHANGED <<privilege_level, last_insert, exceptSales>>

\* the user picks a payment method: currentIndexChanged -> _update_pricing
SelectPaymentMethod ==
    \E method \in Items(PaymentMethods(privilege_level)) :
        /\ method # form.payment_method_combo
        /\ form' = update_pricing([form EXCEPT !.payment_method_combo = method])
        /\ UNCHANGED <<privilege_level, last_insert, exceptSales>>

\* the user picks another payment type: currentIndexChanged -> _update_pricing
SelectPaymentType ==
    /\ form' = update_pricing(form)
    /\ UNCHANGED <<privilege_level, last_insert, exceptSales>>

\* the user types a discount: textChanged -> _update_pricing (line 212),
\* then _calculate_financial_totals (line 1000)
EditDiscount ==
    \E text \in DiscountTexts :
        /\ text # form.discount_edit
        /\ form' = calculate_financial_totals(
                       update_pricing([form EXCEPT !.discount_edit = text]))
        /\ UNCHANGED <<privilege_level, last_insert, exceptSales>>

\* _process_sale_entry.  database is what the connection does: "ok",
\* "cursor" (cursor() raises, and the finally clause then raises on the
\* unbound cursor) or "execute" (the INSERT raises mysql.connector.Error,
\* which _save_sale_to_database swallows)
SaleEntry(document_number, unique, database) ==
    IF ~validate_form_data(form, document_number, unique)
    THEN UNCHANGED salesVars
    ELSE IF CollectRaises(form) \/ database = "cursor"
    THEN UNCHANGED salesVars
    ELSE /\ last_insert' =
                IF database = "ok"
                THEN sale_row(collect_form_data(form, document_number))
                ELSE last_insert
         /\ form' = clear_form_fields(form, privilege_level)
         /\ UNCHANGED privilege_level

\* _process_sale_entry, the answer of the uniqueness query left open
ProcessSaleEntry ==
    /\ \E document_number \in DocumentNumbers, unique \in BOOLEAN,
          database \in {"ok", "cursor", "execute"} :
        SaleEntry(document_number, unique, database)
    /\ UNCHANGED exceptSales

SalesNext ==
    \/ EditQuantity
    \/ SelectProduct
    \/ SelectDocumentType
    \/ SelectPaymentMethod
    \/ SelectPaymentType
    \/ EditDiscount
    \/ ProcessSaleEntry

(* ------------------- the tax computations, applied -------------------- *)

\* a form with anything typed and selected
Forms ==
    {[ClearedForm(11) EXCEPT !.product_combo = p, !.document_type_combo = d,
                             !.payment_method_combo = m, !.quantity_edit = q,
                             !.total_weight_edit = w, !.discount_edit = x] :
        p \in Items(Products), d \in Items(DocumentTypes(11)),
        m \in {"Cash", "FREE SAMPLE"}, q \in QuantityTexts,
        w \in {<<>>, PyStr(30), PyStr(-30)}, x \in DiscountTexts}

TaxInputs ==
    {[kind |-> "metrics", amount |-> a, exchange_rate |-> r] :
        a \in Amounts, r \in {exchange_rate, DecZero}}
    \cup {[kind |-> "summary", raw_data |-> d] :
        d \in SeqsUpTo(SummaryRecords, MaxRecords)}
    \cup {[kind |-> "form", form |-> f] : f \in Forms}

NoTaxResult == [kind |-> "none"]

TaxIdle ==
    /\ tax_pc = "idle"
    /\ tax_input = NoTaxResult
    /\ tax_result = NoTaxResult

TaxInit ==
    /\ tax_pc = "ready"
    /\ tax_input \in TaxInputs
    /\ tax_result = NoTaxResult

CalculateFinancialMetrics ==
    /\ tax_pc = "ready"
    /\ tax_input.kind = "metrics"
    /\ tax_result' = [kind |-> "metrics",
                      metrics |-> calculate_financial_metrics(
                          tax_input.amount, tax_input.exchange_rate, iva_rate)]
    /\ tax_pc' = "done"
    /\ UNCHANGED <<tax_input, exceptTax>>

ProcessMonthlySalesSummary ==
    /\ tax_pc = "ready"
    /\ tax_input.kind = "summary"
    /\ tax_result' = [kind |-> "summary",
                      summary |-> process_monthly_sales_summary(tax_input.raw_data)]
    /\ tax_pc' = "done"
    /\ UNCHANGED <<tax_input, exceptTax>>

CalculateFinancialTotals ==
    /\ tax_pc = "ready"
    /\ tax_input.kind = "form"
    /\ tax_result' = [kind |-> "form",
                      form |-> calculate_financial_totals(tax_input.form)]
    /\ tax_pc' = "done"
    /\ UNCHANGED <<tax_input, exceptTax>>

TaxNext ==
    \/ CalculateFinancialMetrics
    \/ ProcessMonthlySalesSummary
    \/ CalculateFinancialTotals

(* ================= data_processor: validate_date_range ================= *)

\* a date is its proleptic Gregorian ordinal: date(2024, 4, 1).toordinal()
BusinessStart == 738977
\* the longest range accepted, in days
TwoYears == 730

\* an argument that is not a date: comparing it raises TypeError
NoDate == -1

\* (end_date - start_date).days >= 730 where the source tests > 730
ReachesTwoYears(start_date, end_date) == end_date - start_date >= TwoYears
\* (end_date - start_date).days > 730
Exceeds(start_date, end_date) == end_date - start_date > TwoYears

\* validate_date_range(start_date, end_date, business_start)
validate_date_range(start_date, end_date, business_start, date_today) ==
    IF NoDate \in {start_date, end_date, business_start} THEN FALSE
    ELSE IF start_date > end_date THEN FALSE
    ELSE IF start_date < business_start THEN FALSE
    ELSE IF end_date > date_today THEN FALSE
    ELSE IF Exceeds(start_date, end_date) THEN FALSE
    ELSE TRUE

\* days around the business start, and around two years after it
DayOffsets == {-1, 0, 1, 729, 730, 731, 732}
Dates == {BusinessStart + d : d \in DayOffsets}

DateArgs ==
    [start_date : Dates \cup {NoDate}, end_date : Dates,
     business_start : {BusinessStart, BusinessStart + 1}]

DateIdle ==
    /\ date_pc = "idle"
    /\ date_args = [start_date |-> NoDate, end_date |-> NoDate,
                    business_start |-> BusinessStart]
    /\ today = BusinessStart
    /\ date_valid = FALSE

DateInit ==
    /\ date_pc = "ready"
    /\ date_args \in DateArgs
    /\ today \in Dates
    /\ date_valid = FALSE

ValidateDateRange ==
    /\ date_pc = "ready"
    /\ date_valid' = validate_date_range(date_args.start_date, date_args.end_date,
                                         date_args.business_start, today)
    /\ date_pc' = "done"
    /\ UNCHANGED <<date_args, today, exceptDate>>

\* midnight passes
NextDay ==
    /\ today + 1 \in Dates
    /\ today' = today + 1
    /\ UNCHANGED <<date_pc, date_args, date_valid, exceptDate>>

DateNext == ValidateDateRange \/ NextDay

(* ========== SalesDataProcessor: cache, connections, failures =========== *)

\* SalesDataProcessor.cache_timeout
cache_timeout == 300
\* timedelta.seconds is the seconds within the day, 0 <= seconds < 86400
DaySeconds == 86400
\* the connections the server grants at a time
MaxConnections == 1

\* the instants at which something happens: within the timeout of the
\* first, at the timeout, and ten seconds more than a day later
Times == {0, 100, cache_timeout, DaySeconds + 10}

Day(y, m, d) == [year |-> y, month |-> m, day |-> d]
BranchRanges == {[start_date |-> Day(2024, 5, 2), end_date |-> Day(2024, 5, 2)]}
MonthlyRanges == {[start_date |-> Day(2024, 5, 1), end_date |-> Day(2024, 6, 30)]}

\* what the database does to one query: "ok", "down" (conectar() returns
\* None) or "error" (cursor.execute raises on an open connection)
Outcomes == {"ok", "down", "error"}
Available(open) == IF open < MaxConnections THEN Outcomes ELSE {"down"}

\* _execute_query: the rows, or [] on either failure
execute_query(outcome, rows) == IF outcome = "ok" THEN rows ELSE <<>>
\* the connections an operation leaves open: conn.close() is reached on the
\* success path only (lines 738-741, 123-127, 811-815)
LeftOpen(outcome) == IF outcome = "error" THEN 1 ELSE 0

\* the rows VentasDiarias holds for any one day or month: one sale in Osorno
SaleRows ==
    <<[PuntoVenta |-> "Osorno", Articulo |-> "Pellet Bolsa 15 Kg (Retiro)",
       total_kilos |-> Decimal(15, 0), total_cantidad |-> Decimal(1, 0),
       total_total |-> Decimal(119005, -2), total_neto |-> Decimal(100004, -2)]>>

\* get_sales_by_branch_data's result for each outcome of its query
BranchSales ==
    [o \in Outcomes |-> process_branch_sales_data(execute_query(o, SaleRows))]

\* the months of range(start_month, end_month + 1), all of current_year =
\* start_year; the break at line 311 needs month > 12, which range never gives
MonthsOf(range) ==
    LET s == range.start_date.month
        e == range.end_date.month
    IN  [i \in 1..(IF e >= s THEN e - s + 1 ELSE 0) |->
            [year |-> range.start_date.year, month |-> s + i - 1]]

\* the loop of get_monthly_sales_by_branch_data over the months' outcomes
RECURSIVE MonthLoop(_, _)
MonthLoop(outcomes, acc) ==
    IF outcomes = <<>> THEN acc
    ELSE MonthLoop(Tail(outcomes),
                   aggregate_monthly_data(execute_query(outcomes[1], SaleRows), acc))

MonthCounts == {Len(MonthsOf(r)) : r \in MonthlyRanges}
MonthlySales ==
    [os \in UNION {[1..n -> Outcomes] : n \in MonthCounts} |->
        MonthLoop(os, EmptyBranchData)]

\* the outcomes a run of queries can meet, given the connections left open
RECURSIVE Feasible(_, _)
Feasible(outcomes, open) ==
    IF outcomes = <<>> THEN TRUE
    ELSE /\ outcomes[1] \in Available(open)
         /\ Feasible(Tail(outcomes), open + LeftOpen(outcomes[1]))

RECURSIVE LeftOpenBy(_)
LeftOpenBy(outcomes) ==
    IF outcomes = <<>> THEN 0
    ELSE LeftOpen(outcomes[1]) + LeftOpenBy(Tail(outcomes))

\* f"branch_sales_{start_date}_{end_date}" and its monthly counterpart
CacheKey(kind, range) ==
    [kind |-> kind, start_date |-> range.start_date, end_date |-> range.end_date]

\* _is_cache_valid(cache_key)
is_cache_valid(cache_key) ==
    /\ cache_key \in DOMAIN data_cache
    /\ cache_key \in DOMAIN last_cache_update
    /\ (now - last_cache_update[cache_key]) % DaySeconds < cache_timeout

\* d[key] = value
Store(d, key, value) ==
    [k \in DOMAIN d \cup {key} |-> IF k = key THEN value ELSE d[k]]

NoAge == -1
Call(op, queried, cache_age, returned) ==
    [op |-> op, queried |-> queried, cache_age |-> cache_age, returned |-> returned]

ProcIdle ==
    /\ proc_pc = "idle"
    /\ now = 0
    /\ data_cache = <<>>
    /\ last_cache_update = <<>>
    /\ open_connections = 0
    /\ last_call = Call("none", <<>>, NoAge, <<>>)

ProcInit ==
    /\ proc_pc = "new"
    /\ now = 0
    /\ data_cache = <<>>
    /\ last_cache_update = <<>>
    /\ open_connections = 0
    /\ last_call = Call("none", <<>>, NoAge, <<>>)

\* SalesDataProcessor.__init__, which calls _load_product_categories
LoadProductCategories ==
    /\ proc_pc = "new"
    /\ \E outcome \in Available(open_connections) :
          /\ open_connections' = open_connections + LeftOpen(outcome)
          /\ last_call' = Call("_load_product_categories", <<outcome>>, NoAge,
                               IF outcome = "ok" THEN <<"database">>
                               ELSE <<"fallback">>)
    /\ proc_pc' = "ready"
    /\ UNCHANGED <<now, data_cache, last_cache_update, exceptProc>>

\* a call that finds a valid entry returns it and touches nothing else
ServeFromCache(op, cache_key) ==
    /\ last_call' = Call(op, <<>>, now - last_cache_update[cache_key],
                         data_cache[cache_key])
    /\ UNCHANGED <<data_cache, last_cache_update, open_connections>>

\* get_sales_by_branch_data(start_date, end_date)
GetSalesByBranchData ==
    /\ proc_pc = "ready"
    /\ \E range \in BranchRanges, outcome \in Available(open_connections) :
          LET cache_key == CacheKey("branch_sales", range)
              processed_data == BranchSales[outcome]
          IN  IF is_cache_valid(cache_key)
              THEN ServeFromCache("get_sales_by_branch_data", cache_key)
              ELSE /\ data_cache' = Store(data_cache, cache_key, processed_data)
                   /\ last_cache_update' = Store(last_cache_update, cache_key, now)
                   /\ open_connections' = open_connections + LeftOpen(outcome)
                   /\ last_call' = Call("get_sales_by_branch_data", <<outcome>>,
                                        NoAge, processed_data)
    /\ UNCHANGED <<proc_pc, now, exceptProc>>

\* get_monthly_sales_by_branch_data(start_date, end_date)
GetMonthlySalesByBranchData ==
    /\ proc_pc = "ready"
    /\ \E range \in MonthlyRanges :
       \E outcomes \in [1..Len(MonthsOf(range)) -> Outcomes] :
          LET cache_key == CacheKey("monthly_branch_sales", range)
              result == MonthlySales[outcomes]
          IN  /\ Feasible(outcomes, open_connections)
              /\ IF is_cache_valid(cache_key)
                 THEN ServeFromCache("get_monthly_sales_by_branch_data", cache_key)
                 ELSE /\ data_cache' = Store(data_cache, cache_key, result)
                      /\ last_cache_update' = Store(last_cache_update, cache_key, now)
                      /\ open_connections' = open_connections + LeftOpenBy(outcomes)
                      /\ last_call' = Call("get_monthly_sales_by_branch_data",
                                           outcomes, NoAge, result)
    /\ UNCHANGED <<proc_pc, now, exceptProc>>

\* get_products_by_sales_type(sales_type)
GetProductsBySalesType ==
    /\ proc_pc = "ready"
    /\ \E sales_type \in {"Local", "Distribuidor"},
          outcome \in Available(open_connections) :
          /\ open_connections' = open_connections + LeftOpen(outcome)
          /\ last_call' = Call("get_products_by_sales_type", <<outcome>>, NoAge,
                               IF outcome = "ok"
                               THEN SelectSeq(PELLET_PRODUCTS,
                                              LAMBDA p : SalesTypeOf(p) = sales_type)
                               ELSE <<>>)
    /\ UNCHANGED <<proc_pc, now, data_cache, last_cache_update, exceptProc>>

\* clear_cache()
ClearCache ==
    /\ proc_pc = "ready"
    /\ data_cache' = <<>>
    /\ last_cache_update' = <<>>
    /\ last_call' = Call("clear_cache", <<>>, NoAge, <<>>)
    /\ UNCHANGED <<proc_pc, now, open_connections, exceptProc>>

\* time passes
Tick ==
    /\ \E t \in Times :
          /\ t > now
          /\ now' = t
    /\ UNCHANGED <<proc_pc, data_cache, last_cache_update, open_connections,
                   last_call, exceptProc>>

ProcNext ==
    \/ LoadProductCategories
    \/ GetSalesByBranchData
    \/ GetMonthlySalesByBranchData
    \/ GetProductsBySalesType
    \/ ClearCache
    \/ Tick

(* ======================== AdvancedSearchSystem ========================= *)

\* most calls of _trigger_search followed within one burst
MaxBurst == 3
\* longest time followed after a call of _trigger_search, in milliseconds
MaxQuiet == 400

\* search_timer.start(300)
SearchDelay == 300
\* a date range of more than 365 days is asked about
LargeRange == 365

LowerLetters ==
    <<"a", "b", "c", "d", "e", "f", "g", "h", "i", "j", "k", "l", "m",
      "n", "o", "p", "q", "r", "s", "t", "u", "v", "w", "x", "y", "z">>
UpperLetters ==
    <<"A", "B", "C", "D", "E", "F", "G", "H", "I", "J", "K", "L", "M",
      "N", "O", "P", "Q", "R", "S", "T", "U", "V", "W", "X", "Y", "Z">>

\* str.upper(), character by character
UpperChar(c) ==
    IF \E i \in 1..26 : LowerLetters[i] = c
    THEN UpperLetters[CHOOSE i \in 1..26 : LowerLetters[i] = c]
    ELSE c
upper(text) == [i \in 1..Len(text) |-> UpperChar(text[i])]

dangerous_keywords ==
    << <<"D", "R", "O", "P">>, <<"D", "E", "L", "E", "T", "E">>,
       <<"U", "P", "D", "A", "T", "E">>, <<"I", "N", "S", "E", "R", "T">>,
       <<"E", "X", "E", "C">>, <<"E", "X", "E", "C", "U", "T", "E">>,
       <<"S", "C", "R", "I", "P", "T">>, <<"U", "N", "I", "O", "N">>,
       <<"S", "E", "L", "E", "C", "T">>, <<"-", "-">>, <<"/", "*">>,
       <<"*", "/">>, <<";">> >>

\* the keyword test of validate_input without upper(): case-sensitive
HasKeywordAsWritten(value) ==
    \E k \in 1..Len(dangerous_keywords) : Contains(value, dangerous_keywords[k])

\* `keyword in upper_value` for some keyword of the list
HasDangerousKeyword(value) ==
    \E k \in 1..Len(dangerous_keywords) :
        Contains(upper(value), dangerous_keywords[k])

\* validate_input(value, input_type) for a str value and the input types
\* "text" and "number" (the dialog passes "number"; "date" is never passed)
validate_input(value, input_type) ==
    IF value = <<>> THEN TRUE
    ELSE IF HasDangerousKeyword(value) THEN FALSE
    ELSE IF input_type = "number" THEN PyInt(value).ok
    ELSE TRUE

NoValidation == [called |-> FALSE, value |-> <<>>, input_type |-> "text", result |-> TRUE]
Validation(value, input_type) ==
    [called |-> TRUE, value |-> value, input_type |-> input_type,
     result |-> validate_input(value, input_type)]

\* _validate_search_criteria: the value returned, and the call of
\* validate_input it makes when it gets as far as the document number
validate_search_criteria(dates, reply, branches, text, validation) ==
    LET doc_number == Strip(text)
        date_diff == dates.end_date - dates.start_date
    IN  IF dates.start_date > dates.end_date
        THEN [ok |-> FALSE, validation |-> validation]
        ELSE IF date_diff > LargeRange /\ reply # "Yes"
        THEN [ok |-> FALSE, validation |-> validation]
        ELSE IF branches = <<>>
        THEN [ok |-> FALSE, validation |-> validation]
        ELSE IF doc_number # <<>>
        THEN [ok |-> validate_input(doc_number, "number"),
              validation |-> Validation(doc_number, "number")]
        ELSE [ok |-> TRUE, validation |-> validation]

\* QTimer, single shot: stop(), start(msec), and the timeout when it runs out
IdleTimer == [active |-> FALSE, remaining |-> 0]
stop(timer) == [timer EXCEPT !.active = FALSE]
start(timer, msec) == [active |-> TRUE, remaining |-> msec]
Due(timer) == timer.active /\ timer.remaining = 0

\* a timer that is left running when it is already pending
KeepPending(timer) == IF timer.active THEN timer ELSE start(timer, SearchDelay)

\* what _trigger_search does to search_timer (lines 1095-1098)
trigger_search(timer) == start(stop(timer), SearchDelay)

\* no call of _trigger_search yet, no search since the last call
Never == -1
NoCalls ==
    [calls |-> 0, since_call |-> Never, searches |-> 0, delay |-> Never,
     interleaved |-> FALSE]

NoSearch ==
    [ran |-> FALSE, text |-> <<>>, queried |-> FALSE, before |-> <<>>,
     after |-> <<>>]

available_branches == <<"Osorno", "La Unión">>
BranchSelections == {<<>>, available_branches}

\* the last 30 days (lines 764, 769), start after end, more than a year
DefaultDates == [start_date |-> 0, end_date |-> 30]
DateRanges ==
    {DefaultDates, [start_date |-> 30, end_date |-> 0],
     [start_date |-> 0, end_date |-> LargeRange + 1]}

ResultRows == {<<>>, <<[VentaID |-> 1]>>}

DocumentTexts ==
    {<<>>, <<" ">>, <<"1", "2">>, <<"1", ";">>, <<"D", "r", "o", "p">>, <<"x">>}

LowerChar(c) ==
    IF \E i \in 1..26 : UpperLetters[i] = c
    THEN LowerLetters[CHOOSE i \in 1..26 : UpperLetters[i] = c]
    ELSE c
lower(text) == [i \in 1..Len(text) |-> LowerChar(text[i])]

\* values handed to validate_input: every keyword as listed, in lower case,
\* capitalised and inside a longer text, and texts without a keyword
ValidationTexts ==
    DocumentTexts
    \cup {dangerous_keywords[k] : k \in 1..Len(dangerous_keywords)}
    \cup {lower(dangerous_keywords[k]) : k \in 1..Len(dangerous_keywords)}
    \cup {<<dangerous_keywords[k][1]>> \o lower(Tail(dangerous_keywords[k])) :
            k \in 1..Len(dangerous_keywords)}
    \cup {<<"1", " ">> \o lower(dangerous_keywords[k]) \o <<"2">> :
            k \in 1..Len(dangerous_keywords)}
    \cup {<<"-">>, <<"/">>, <<"*">>, <<"d", "r", "o", " ", "p">>,
          <<"s", "e", "l", "e", "c">>, <<"+", "5">>, <<" ", "7", " ">>}
InputTypes == {"text", "number"}

\* the Search button as created (line 809) and as _execute_search leaves it
\* (lines 1150-1151), and as _trigger_search sets it (lines 1101-1102)
IdleButton == [text |-> "Search", enabled |-> TRUE]
SearchingButton == [text |-> "Searching...", enabled |-> FALSE]

\* a search that leaves the Search button as it finds it
LeaveButton(button) == button

\* the finally clause of _execute_search
reset_search_button(button) == IdleButton

\* an Export button that is enabled after every completed search
EnabledAfterSearch(result_count) == TRUE

\* export_button.setEnabled(result_count > 0), line 1138
export_enabled(result_count) == result_count > 0

NotClosed == [by |-> "none", searched |-> FALSE, queried |-> FALSE]

\* no dialog: the query builder is used on its own
SearchIdle ==
    /\ dialog = "none"
    /\ document_input = <<>>
    /\ date_filter = DefaultDates
    /\ selected_branches = <<>>
    /\ current_results = <<>>
    /\ search_timer = IdleTimer
    /\ debounce = NoCalls
    /\ last_search = NoSearch
    /\ last_validation = NoValidation
    /\ search_button = IdleButton
    /\ export_button = FALSE
    /\ database_connection = "none"
    /\ after_close = NotClosed

\* AdvancedSearchSystem after __init__, the database connected
DialogInit ==
    /\ dialog = "open"
    /\ document_input = <<>>
    /\ date_filter = DefaultDates
    /\ selected_branches = available_branches
    /\ current_results = <<>>
    /\ search_timer = IdleTimer
    /\ debounce = NoCalls
    /\ last_search = NoSearch
    /\ last_validation = NoValidation
    /\ search_button = IdleButton
    /\ export_button = FALSE
    /\ database_connection = "open"
    /\ after_close = NotClosed

\* validate_input called on the query builder
ValidateInput ==
    /\ dialog = "none"
    /\ \E value \in ValidationTexts, input_type \in InputTypes :
        last_validation' = Validation(value, input_type)
    /\ UNCHANGED <<dialog, document_input, date_filter, selected_branches,
                   current_results, search_timer, debounce, last_search>>
    /\ UNCHANGED controlVars
    /\ UNCHANGED exceptSearch

\* the user types into document_input (no signal is connected to the edit)
EditDocumentNumber ==
    /\ dialog = "open"
    /\ ~Due(search_timer)
    /\ \E text \in DocumentTexts : document_input' = text
    /\ UNCHANGED <<dialog, date_filter, selected_branches, current_results,
                   search_timer, debounce, last_search, last_validation>>
    /\ UNCHANGED controlVars
    /\ UNCHANGED exceptSearch

\* the user edits the two QDateEdit widgets
SetDateRange ==
    /\ dialog = "open"
    /\ ~Due(search_timer)
    /\ \E dates \in DateRanges : date_filter' = dates
    /\ UNCHANGED <<dialog, document_input, selected_branches, current_results,
                   search_timer, debounce, last_search, last_validation>>
    /\ UNCHANGED controlVars
    /\ UNCHANGED exceptSearch

\* _trigger_search: the timer restarted; the calls of the burst counted.  An
\* event is handled after a timeout that is already due.
Triggered ==
    LET in_burst == debounce.calls > 0 /\ debounce.since_call < SearchDelay
    IN  /\ ~Due(search_timer)
        /\ in_burst => debounce.calls < MaxBurst
        /\ search_timer' = trigger_search(search_timer)
        /\ search_button' = SearchingButton
        /\ debounce' =
            [calls |-> IF in_burst THEN debounce.calls + 1 ELSE 1,
             since_call |-> 0,
             searches |-> 0,
             delay |-> Never,
             interleaved |-> in_burst /\ (debounce.interleaved \/ debounce.searches > 0)]

\* the search button, Return in document_input, F5
TriggerSearch ==
    /\ dialog = "open"
    /\ Triggered
    /\ UNCHANGED <<dialog, document_input, date_filter, selected_branches,
                   current_results, last_search, last_validation>>
    /\ UNCHANGED <<export_button, database_connection, after_close>>
    /\ UNCHANGED exceptSearch

\* _show_branch_selector accepted, then _trigger_auto_search
ShowBranchSelector ==
    /\ dialog = "open"
    /\ ~Due(search_timer)
    /\ \E items \in BranchSelections : selected_branches' = items
    /\ \E checked \in BOOLEAN :
        IF checked THEN Triggered
        ELSE UNCHANGED <<search_timer, debounce, search_button>>
    /\ UNCHANGED <<dialog, document_input, date_filter, current_results,
                   last_search, last_validation>>
    /\ UNCHANGED <<export_button, database_connection, after_close>>
    /\ UNCHANGED exceptSearch

\* the timeout of search_timer: _execute_search.  reply answers the question
\* about a large date range; the query succeeds with rows, or cursor() or
\* execute() raises, and the handler logs the failure.
ExecuteSearch ==
    /\ Due(search_timer)
    /\ search_timer' = stop(search_timer)
    /\ debounce' = [debounce EXCEPT !.searches = @ + 1, !.delay = debounce.since_call]
    /\ \E reply \in {"Yes", "No"}, outcome \in {"ok", "cursor", "execute"},
          rows \in ResultRows :
        LET criteria == validate_search_criteria(date_filter, reply,
                            selected_branches, document_input, last_validation)
            queried == criteria.ok /\ outcome # "cursor"
        IN  /\ last_validation' = criteria.validation
            /\ current_results' =
                IF criteria.ok /\ outcome = "ok" THEN rows ELSE current_results
            /\ last_search' =
                [ran |-> TRUE, text |-> document_input, queried |-> queried,
                 before |-> current_results, after |-> current_results']
            /\ export_button' =
                IF criteria.ok /\ outcome = "ok"
                THEN export_enabled(Len(rows)) ELSE export_button
            /\ after_close' =
                IF dialog = "closed"
                THEN [after_close EXCEPT !.searched = TRUE, !.queried = queried]
                ELSE after_close
    /\ search_button' = reset_search_button(search_button)
    /\ UNCHANGED <<dialog, document_input, date_filter, selected_branches,
                   database_connection>>
    /\ UNCHANGED exceptSearch

\* Escape or the clear button: _clear_filters
ClearFilters ==
    /\ dialog = "open"
    /\ ~Due(search_timer)
    /\ date_filter' = DefaultDates
    /\ selected_branches' = available_branches
    /\ document_input' = <<>>
    /\ current_results' = <<>>
    /\ export_button' = FALSE
    /\ UNCHANGED <<dialog, search_timer, debounce, last_search, last_validation,
                   search_button, database_connection, after_close>>
    /\ UNCHANGED exceptSearch

\* closeEvent: the connection is closed and the pending search is dropped
\* with the timer
CloseEvent ==
    /\ dialog = "open"
    /\ ~Due(search_timer)
    /\ dialog' = "closed"
    /\ database_connection' = "closed"
    /\ search_timer' = stop(search_timer)
    /\ after_close' = [NotClosed EXCEPT !.by = "closeEvent"]
    /\ UNCHANGED <<document_input, date_filter, selected_branches,
                   current_results, debounce, last_search, last_validation,
                   search_button, export_button>>
    /\ UNCHANGED exceptSearch

\* the Close button: clicked is connected to QDialog.reject (line 848), which
\* ends the dialog with the result Rejected and hides it; closeEvent is not
\* called for it
RejectDialog ==
    /\ dialog = "open"
    /\ ~Due(search_timer)
    /\ dialog' = "closed"
    /\ after_close' = [NotClosed EXCEPT !.by = "reject"]
    /\ UNCHANGED <<document_input, date_filter, selected_branches,
                   current_results, search_timer, debounce, last_search,
                   last_validation, search_button, export_button,
                   database_connection>>
    /\ UNCHANGED exceptSearch

\* d milliseconds pass; a pending timer does not run past its timeout
Delays == {100, 199}
Elapse ==
    /\ debounce.calls > 0
    /\ \E d \in Delays :
        /\ debounce.since_call + d <= MaxQuiet
        /\ search_timer.active => d <= search_timer.remaining
        /\ search_timer' =
            IF search_timer.active
            THEN [search_timer EXCEPT !.remaining = @ - d]
            ELSE search_timer
        /\ debounce' = [debounce EXCEPT !.since_call = @ + d]
    /\ UNCHANGED <<dialog, document_input, date_filter, selected_branches,
                   current_results, last_search, last_validation>>
    /\ UNCHANGED controlVars
    /\ UNCHANGED exceptSearch

\* the time left on the pending timer passes
AwaitTimeout ==
    /\ search_timer.active
    /\ search_timer.remaining > 0
    /\ search_timer' = [search_timer EXCEPT !.remaining = 0]
    /\ debounce' = [debounce EXCEPT !.since_call = @ + search_timer.remaining]
    /\ UNCHANGED <<dialog, document_input, date_filter, selected_branches,
                   current_results, last_search, last_validation>>
    /\ UNCHANGED controlVars
    /\ UNCHANGED exceptSearch

\* the dialog with a timer that is followed to its timeout, the document
\* number left empty
SearchLiveNext ==
    \/ SetDateRange
    \/ TriggerSearch
    \/ ShowBranchSelector
    \/ ExecuteSearch
    \/ ClearFilters
    \/ CloseEvent
    \/ RejectDialog
    \/ AwaitTimeout

SearchNext ==
    \/ ValidateInput
    \/ EditDocumentNumber
    \/ SetDateRange
    \/ TriggerSearch
    \/ ShowBranchSelector
    \/ ExecuteSearch
    \/ ClearFilters
    \/ CloseEvent
    \/ RejectDialog
    \/ Elapse

(* ===================== InteractiveChartsWindow ========================= *)

\* most signals waiting for the UI thread when an animation is started
MaxQueued == 13

\* data_points = list(range(12))
DataPoints == 12

\* the natural number held in limbs of base bb
RECURSIVE ToNat(_, _)
ToNat(c, bb) == IF c = <<>> THEN 0 ELSE c[1] + bb * ToNat(Tail(c), bb)

\* int(x) of a float x >= 0: the fraction is cut off
IntOfFloat(x, ctx) ==
    IF x.e >= 0 THEN ToNat(ShiftDigits(x.c, x.e, ctx), Base(ctx))
    ELSE ToNat(BDivMod(x.c, ShiftDigits(<<1>>, -x.e, ctx), Base(ctx)).q, Base(ctx))

\* int((i / len(self.data_points)) * 100), in float arithmetic
progress_of(i, n) ==
    IntOfFloat(FMul(FDiv(FromInt(i, FloatCtx), FromInt(n, FloatCtx), FloatCtx),
                    FromInt(100, FloatCtx), FloatCtx), FloatCtx)

\* the progress value of every index of the loop
ProgressValues == [i \in 0..(DataPoints - 1) |-> progress_of(i, DataPoints)]

ProgressUpdate(value) == [signal |-> "progress_update", value |-> value]
AnimationFinished == [signal |-> "animation_finished", value |-> 0]

NoThread == [state |-> "none", i |-> 0]

\* InteractiveChartsWindow after __init__
AnimIdle ==
    /\ process = "running"
    /\ ui_pc = "events"
    /\ animation_enabled = TRUE
    /\ animation_thread = NoThread
    /\ emitted = <<>>
    /\ posted = <<>>
    /\ status_label = <<"Ready">>

AnimInit == AnimIdle

\* toggle_animation(enabled) up to animation_thread.start() in animate_charts:
\* the thread is created, its signals connected, and it is started
ToggleAnimation ==
    /\ process = "running"
    /\ ui_pc = "events"
    /\ \E enabled \in BOOLEAN :
        /\ animation_enabled' = enabled
        /\ enabled => Len(posted) + DataPoints + 1 <= MaxQueued
        /\ IF enabled
           THEN /\ animation_thread' = [state |-> "running", i |-> 0]
                /\ emitted' = <<>>
                /\ ui_pc' = "animate_charts"
           ELSE UNCHANGED <<animation_thread, emitted, ui_pc>>
    /\ UNCHANGED <<process, posted, status_label>>
    /\ UNCHANGED exceptAnim

\* animate_charts returns: the local variable animation_thread held the only
\* reference, so the QThread is destroyed here.  Destroying a QThread that
\* is still running ends the process (qFatal).
AnimateChartsReturn ==
    /\ process = "running"
    /\ ui_pc = "animate_charts"
    /\ ui_pc' = "events"
    /\ animation_thread' = [animation_thread EXCEPT !.state = "destroyed"]
    /\ process' = IF animation_thread.state = "running" THEN "aborted" ELSE process
    /\ UNCHANGED <<animation_enabled, emitted, posted, status_label>>
    /\ UNCHANGED exceptAnim

\* run(), one pass of the loop: progress_update.emit(progress)
RunEmitProgress ==
    /\ process = "running"
    /\ animation_thread.state = "running"
    /\ animation_thread.i < DataPoints
    /\ LET signal == ProgressUpdate(ProgressValues[animation_thread.i])
       IN  /\ emitted' = Append(emitted, signal)
           /\ posted' = Append(posted, signal)
    /\ animation_thread' = [animation_thread EXCEPT !.i = @ + 1]
    /\ UNCHANGED <<process, ui_pc, animation_enabled, status_label>>
    /\ UNCHANGED exceptAnim

\* run() after the loop: animation_finished.emit()
RunEmitFinished ==
    /\ process = "running"
    /\ animation_thread.state = "running"
    /\ animation_thread.i = DataPoints
    /\ emitted' = Append(emitted, AnimationFinished)
    /\ posted' = Append(posted, AnimationFinished)
    /\ animation_thread' = [animation_thread EXCEPT !.state = "finished"]
    /\ UNCHANGED <<process, ui_pc, animation_enabled, status_label>>
    /\ UNCHANGED exceptAnim

\* the slot update_animation_progress, run by the event loop
UpdateAnimationProgress ==
    /\ process = "running"
    /\ ui_pc = "events"
    /\ posted # <<>>
    /\ posted[1].signal = "progress_update"
    /\ status_label' = <<"Animating... ", posted[1].value, "%">>
    /\ posted' = Tail(posted)
    /\ UNCHANGED <<process, ui_pc, animation_enabled, animation_thread, emitted>>
    /\ UNCHANGED exceptAnim

\* the slot on_animation_finished, run by the event loop
OnAnimationFinished ==
    /\ process = "running"
    /\ ui_pc = "events"
    /\ posted # <<>>
    /\ posted[1].signal = "animation_finished"
    /\ status_label' = <<"Animation completed">>
    /\ posted' = Tail(posted)
    /\ UNCHANGED <<process, ui_pc, animation_enabled, animation_thread, emitted>>
    /\ UNCHANGED exceptAnim

\* refresh_all_charts: QApplication.processEvents() inside its loop runs the
\* slots of some of the queued signals; the handler sets the label last
RefreshAllCharts ==
    /\ process = "running"
    /\ ui_pc = "events"
    /\ \E k \in 0..Len(posted) : posted' = SubSeq(posted, k + 1, Len(posted))
    /\ status_label' = <<"Charts updated">>
    /\ UNCHANGED <<process, ui_pc, animation_enabled, animation_thread, emitted>>
    /\ UNCHANGED exceptAnim

AnimNext ==
    \/ ToggleAnimation
    \/ RefreshAllCharts
    \/ AnimateChartsReturn
    \/ RunEmitProgress
    \/ RunEmitFinished
    \/ UpdateAnimationProgress
    \/ OnAnimationFinished

(* ================== SalesEntryWindow and DailySales ==================== *)

\* most rows of DailySales followed
MaxSales == 3

AllDocumentTypes == Items(DocumentTypes(11))
DocumentKeys == AllDocumentTypes \X DocumentNumbers

NoSales == [key \in DocumentKeys |-> 0]
RowCount(table) ==
    LET RECURSIVE Sum(_)
        Sum(keys) ==
            IF keys = {} THEN 0
            ELSE LET key == CHOOSE k \in keys : TRUE
                 IN  table[key] + Sum(keys \ {key})
    IN  Sum(DocumentKeys)

\* a check that lets every document number through
AlwaysUnique(table, document_type, document_number, outcome) == TRUE

\* _is_document_unique: SELECT COUNT(*) ... WHERE DocumentType = %s AND
\* DocumentNumber = %s is 0; False when the query raises
is_document_unique(table, document_type, document_number, outcome) ==
    outcome = "ok" /\ table[<<document_type, document_number>>] = 0

NoSubmission ==
    [submitted |-> FALSE, key |-> <<"Invoice", <<"0">>>>, existed |-> FALSE,
     accepted |-> FALSE, inserted |-> FALSE]

DocIdle ==
    /\ daily_sales = NoSales
    /\ last_submission = NoSubmission

\* DailySales is empty, or holds invoice 7 from an earlier session
DocInit ==
    /\ daily_sales \in {NoSales, [NoSales EXCEPT ![<<"Invoice", <<"7">>>>] = 1]}
    /\ last_submission = NoSubmission

\* _process_sale_entry with the uniqueness query answered by DailySales:
\* check is what that query does ("ok", or "error": it raises), database
\* what the INSERT does
SubmitSale ==
    /\ RowCount(daily_sales) < MaxSales
    /\ \E document_number \in DocumentNumbers, check \in {"ok", "error"},
          database \in {"ok", "cursor", "execute"} :
        LET key == <<form.document_type_combo, document_number>>
            unique == is_document_unique(daily_sales, key[1], key[2], check)
            accepted == validate_form_data(form, document_number, unique)
            inserted == accepted /\ ~CollectRaises(form) /\ database = "ok"
        IN  /\ SaleEntry(document_number, unique, database)
            /\ daily_sales' =
                IF inserted THEN [daily_sales EXCEPT ![key] = @ + 1]
                ELSE daily_sales
            /\ last_submission' =
                [submitted |-> TRUE, key |-> key,
                 existed |-> daily_sales[key] > 0,
                 accepted |-> accepted, inserted |-> inserted]
    /\ UNCHANGED exceptSalesDoc

DocNext ==
    \/ EditQuantity
    \/ SelectDocumentType
    \/ SubmitSale

(* ============================== main.py ================================ *)

\* MenuWindow.MenuResults, by name; None is "None"
MenuResults == {"SALES_ENTRY", "DAILY_SALES", "UPDATE_SYSTEM", "SALES_SUMMARY"}

current_app_version == <<"0.3">>
\* a version string; <<>> is the empty string, NoVersion is None
NoVersion == <<"None">>
Versions == {<<>>, <<"0.3">>, <<"0.4">>}
UserPrivileges == {9, 10, 11}

\* what the database does during get_current_version: conectar() returns
\* None or raises Error, cursor() or execute() raises Error, the table is
\* empty, or it holds a version
VersionOutcomes ==
    {[kind |-> k, version |-> NoVersion] :
        k \in {"no connection", "connect raises", "cursor raises",
               "execute raises", "empty"}}
    \cup {[kind |-> "row", version |-> v] : v \in Versions}

\* get_current_version: `returned` or raised, the value, and whether the
\* connection and the cursor it opened are closed when it is left.  The
\* finally clause reads cursor, which is unbound until conn.cursor() has
\* returned: UnboundLocalError.
get_current_version(outcome) ==
    CASE outcome.kind \in {"no connection", "connect raises"} ->
            [returned |-> FALSE, value |-> NoVersion, raised |-> "UnboundLocalError",
             connection_left_open |-> FALSE, cursor_left_open |-> FALSE]
      [] outcome.kind = "cursor raises" ->
            [returned |-> FALSE, value |-> NoVersion, raised |-> "UnboundLocalError",
             connection_left_open |-> TRUE, cursor_left_open |-> FALSE]
      [] outcome.kind \in {"execute raises", "empty"} ->
            [returned |-> TRUE, value |-> NoVersion, raised |-> "none",
             connection_left_open |-> FALSE, cursor_left_open |-> FALSE]
      [] outcome.kind = "row" ->
            [returned |-> TRUE, value |-> outcome.version, raised |-> "none",
             connection_left_open |-> FALSE, cursor_left_open |-> FALSE]

NoVersionCall ==
    [called |-> FALSE, outcome |-> "none", returned |-> FALSE, value |-> NoVersion,
     raised |-> "none", connection_left_open |-> FALSE, cursor_left_open |-> FALSE]

\* `database_version and database_version != current_app_version`
UpdateAvailable(version) ==
    version # NoVersion /\ version # <<>> /\ version # current_app_version

\* a menu whose Sales Entry button is enabled for everybody
EnabledForAll(level) == TRUE

\* _configure_privilege_restrictions: the Sales Entry button stays enabled
\* unless privilege_level < 10
sales_entry_enabled(level) == ~(level < 10)

\* the window the loop in main() opens for a navigation result
WindowOf(result) ==
    CASE result = "SALES_ENTRY" -> "IngresoVentasWindow"
      [] result = "DAILY_SALES" -> "VentasDiariasWindow"
      [] result = "UPDATE_SYSTEM" -> "UpdateDialog"
      [] result = "SALES_SUMMARY" -> "ResumenVentasWindow"

\* a loop that leaves navigation_result as it is after a window has closed
KeepResult(result) == result

\* `main_window.navigation_result = None` after the window has closed
ResetResult(result) == "None"

NoNavigation == [result |-> "None", window |-> "none", after |-> "None"]
NoButtons == [sales_entry |-> FALSE, system_update |-> FALSE]

MainIdle ==
    /\ main_pc = "idle"
    /\ user_privilege = 0
    /\ database_version = NoVersion
    /\ version_call = NoVersionCall
    /\ buttons = NoButtons
    /\ notice_shown = FALSE
    /\ main_visible = FALSE
    /\ navigation_result = "None"
    /\ open_windows = {}
    /\ last_navigation = NoNavigation
    /\ exception = "none"

\* main() has created the QApplication
MainInit ==
    /\ main_pc = "login"
    /\ user_privilege = 0
    /\ database_version = NoVersion
    /\ version_call = NoVersionCall
    /\ buttons = NoButtons
    /\ notice_shown = FALSE
    /\ main_visible = FALSE
    /\ navigation_result = "None"
    /\ open_windows = {}
    /\ last_navigation = NoNavigation
    /\ exception = "none"

\* the login dialog: rejected, main() exits; accepted, the privilege is read
Login ==
    /\ main_pc = "login"
    /\ \E accepted \in BOOLEAN, privilege \in UserPrivileges :
        IF accepted
        THEN user_privilege' = privilege /\ main_pc' = "version"
        ELSE user_privilege' = user_privilege /\ main_pc' = "exited"
    /\ UNCHANGED <<database_version, version_call, buttons, notice_shown,
                   main_visible, navigation_result, open_windows,
                   last_navigation, exception>>
    /\ UNCHANGED exceptMain

\* database_version = get_current_version(); nothing in main() catches what
\* it raises
GetCurrentVersion ==
    /\ main_pc = "version"
    /\ \E outcome \in VersionOutcomes :
        LET call == get_current_version(outcome)
        IN  /\ version_call' =
                [called |-> TRUE, outcome |-> outcome.kind,
                 returned |-> call.returned, value |-> call.value,
                 raised |-> call.raised,
                 connection_left_open |-> call.connection_left_open,
                 cursor_left_open |-> call.cursor_left_open]
            /\ IF call.returned
               THEN /\ database_version' = call.value
                    /\ main_pc' = "menu"
                    /\ exception' = exception
               ELSE /\ database_version' = database_version
                    /\ main_pc' = "raised"
                    /\ exception' = call.raised
    /\ UNCHANGED <<user_privilege, buttons, notice_shown, main_visible,
                   navigation_result, open_windows, last_navigation>>
    /\ UNCHANGED exceptMain

\* main(), lines 506-519: the menu is built with every button enabled and
\* the privilege restriction applied; then the update check.  MenuWindow has
\* no method _show_information_message_box, so the call at line 511 raises
\* AttributeError.
CreateMenu ==
    /\ main_pc = "menu"
    /\ IF UpdateAvailable(database_version)
       THEN /\ buttons' = [sales_entry |-> sales_entry_enabled(user_privilege),
                           system_update |-> TRUE]
            /\ main_pc' = "raised"
            /\ exception' = "AttributeError"
            /\ UNCHANGED main_visible
       ELSE /\ buttons' = [sales_entry |-> sales_entry_enabled(user_privilege),
                           system_update |-> FALSE]
            /\ main_visible' = TRUE
            /\ main_pc' = "events"
            /\ UNCHANGED exception
    /\ UNCHANGED <<user_privilege, database_version, version_call, notice_shown,
                   navigation_result, open_windows, last_navigation>>
    /\ UNCHANGED exceptMain

\* an enabled menu button is clicked while app.processEvents() runs, in the
\* main loop or in the loop of the summary window
ClickMenuButton ==
    /\ main_pc \in {"events", "summary"}
    /\ main_visible
    /\ \E result \in MenuResults :
        /\ result = "SALES_ENTRY" => buttons.sales_entry
        /\ result = "UPDATE_SYSTEM" => buttons.system_update
        /\ navigation_result' = result
    /\ UNCHANGED <<main_pc, user_privilege, database_version, version_call,
                   buttons, notice_shown, main_visible, open_windows,
                   last_navigation, exception>>
    /\ UNCHANGED exceptMain

\* EXIT or the close box: closeEvent asks, and accepts on Ok
CloseMainWindow ==
    /\ main_pc \in {"events", "summary"}
    /\ main_visible
    /\ \E reply \in {"Ok", "Cancel"} : main_visible' = (reply # "Ok")
    /\ UNCHANGED <<main_pc, user_privilege, database_version, version_call,
                   buttons, notice_shown, navigation_result, open_windows,
                   last_navigation, exception>>
    /\ UNCHANGED exceptMain

\* processEvents() has returned: the if-chain on navigation_result opens a
\* window; without a result the loop ends once the menu is not visible
HandleNavigation ==
    /\ main_pc = "events"
    /\ IF navigation_result \in MenuResults
       THEN /\ open_windows' = open_windows \cup {WindowOf(navigation_result)}
            /\ main_pc' = IF navigation_result = "SALES_SUMMARY"
                          THEN "summary" ELSE "exec"
            /\ last_navigation' =
                [result |-> navigation_result,
                 window |-> WindowOf(navigation_result), after |-> "pending"]
       ELSE /\ ~main_visible
            /\ main_pc' = "exited"
            /\ UNCHANGED <<open_windows, last_navigation>>
    /\ UNCHANGED <<user_privilege, database_version, version_call, buttons,
                   notice_shown, main_visible, navigation_result, exception>>
    /\ UNCHANGED exceptMain

\* the secondary window closes: exec() returns, or the summary window is no
\* longer visible; control is back in the main loop
CloseSecondaryWindow ==
    /\ main_pc \in {"exec", "summary"}
    /\ open_windows' = open_windows \ {last_navigation.window}
    /\ navigation_result' = ResetResult(navigation_result)
    /\ last_navigation' = [last_navigation EXCEPT !.after = navigation_result']
    /\ main_pc' = "events"
    /\ UNCHANGED <<user_privilege, database_version, version_call, buttons,
                   notice_shown, main_visible, exception>>
    /\ UNCHANGED exceptMain

MainNext ==
    \/ Login
    \/ GetCurrentVersion
    \/ CreateMenu
    \/ ClickMenuButton
    \/ CloseMainWindow
    \/ HandleNavigation
    \/ CloseSecondaryWindow

(* =========================== SalesDashboard ============================ *)

\* self.start_date = None
NoQDate == [year |-> 0, month |-> 0, day |-> 0]

\* QDate's order
QDateLess(a, b) ==
    \/ a.year < b.year
    \/ a.year = b.year /\ a.month < b.month
    \/ a.year = b.year /\ a.month = b.month /\ a.day < b.day

\* dates the calendar offers (its minimum date is 2024-04-01): two in one
\* month, across the end of a year, and more than a year later
CalendarDates ==
    {Day(2024, 11, 20), Day(2024, 11, 28), Day(2024, 12, 5), Day(2025, 2, 3),
     Day(2026, 1, 15)}

\* a selection that is left as the two clicks made it
AsSelected(start_date, end_date) == <<start_date, end_date>>

\* lines 348-350: with both dates set, start_date > end_date swaps them
ordered(start_date, end_date) ==
    IF start_date # NoQDate /\ end_date # NoQDate /\ QDateLess(end_date, start_date)
    THEN <<end_date, start_date>>
    ELSE <<start_date, end_date>>

\* the range _refresh_dashboard_data and _load_monthly_aggregated_data work
\* on: the selection when both dates are set, else the selected date
RangeOf(d) ==
    IF d.start_date # NoQDate /\ d.end_date # NoQDate
    THEN [start_date |-> d.start_date, end_date |-> d.end_date]
    ELSE [start_date |-> d.selected, end_date |-> d.selected]

NoLoad ==
    [source |-> "none", range |-> [start_date |-> NoQDate, end_date |-> NoQDate],
     months |-> <<>>]

\* _load_monthly_aggregated_data: one query per month of
\* range(start_month, end_month + 1), each in start_year
load_monthly_aggregated_data(d) ==
    [source |-> "dashboard", range |-> RangeOf(d), months |-> MonthsOf(RangeOf(d))]

\* _refresh_dashboard_data -> _load_sales_data: the daily query, then the
\* monthly ones; a database error before them leaves no monthly query
refresh_dashboard_data(d, database) ==
    IF database = "ok" THEN load_monthly_aggregated_data(d)
    ELSE [source |-> "failed", range |-> RangeOf(d), months |-> <<>>]

NoSelection == [date |-> NoQDate, shift |-> FALSE]

DashIdle ==
    /\ dashboard = [start_date |-> NoQDate, end_date |-> NoQDate, selected |-> NoQDate]
    /\ last_selection = NoSelection
    /\ monthly_load = NoLoad

\* __init__: no range, the calendar on the current date
DashInit ==
    /\ \E current \in CalendarDates :
        dashboard = [start_date |-> NoQDate, end_date |-> NoQDate, selected |-> current]
    /\ last_selection = NoSelection
    /\ monthly_load = NoLoad

\* selectionChanged -> _handle_date_selection_change, with the Shift key
\* down or not
HandleDateSelectionChange ==
    /\ \E current_date \in CalendarDates \ {dashboard.selected}, shift \in BOOLEAN,
          database \in {"ok", "error"} :
        /\ last_selection' = [date |-> current_date, shift |-> shift]
        /\ IF shift
           THEN LET first == IF dashboard.start_date = NoQDate
                             THEN current_date ELSE dashboard.start_date
                    second == IF dashboard.start_date = NoQDate
                           THEN NoQDate ELSE current_date
                    pair == ordered(first, second)
                    d == [start_date |-> pair[1], end_date |-> pair[2],
                          selected |-> current_date]
                IN  /\ dashboard' = d
                    /\ monthly_load' = refresh_dashboard_data(d, database)
           ELSE /\ dashboard' = [start_date |-> current_date, end_date |-> NoQDate,
                                 selected |-> current_date]
                /\ database = "ok"
                /\ UNCHANGED monthly_load
    /\ UNCHANGED exceptDash

\* calendar.clicked -> _refresh_dashboard_data
RefreshDashboardData ==
    /\ \E database \in {"ok", "error"} :
        monthly_load' = refresh_dashboard_data(dashboard, database)
    /\ UNCHANGED <<dashboard, last_selection>>
    /\ UNCHANGED exceptDash

\* _export_comprehensive_report, lines 657-658: without a start date, today
ExportComprehensiveReport ==
    /\ dashboard.start_date = NoQDate
    /\ \E current \in CalendarDates :
        dashboard' = [dashboard EXCEPT !.start_date = current]
    /\ UNCHANGED <<last_selection, monthly_load>>
    /\ UNCHANGED exceptDash

\* SalesDataProcessor.get_monthly_sales_by_branch_data(start_date, end_date)
\* for a range of the calendar's dates
MonthlySalesByBranch ==
    /\ \E s \in CalendarDates, e \in CalendarDates :
        /\ ~QDateLess(e, s)
        /\ LET range == [start_date |-> s, end_date |-> e]
           IN  monthly_load' = [source |-> "processor", range |-> range,
                                months |-> MonthsOf(range)]
    /\ UNCHANGED <<dashboard, last_selection>>
    /\ UNCHANGED exceptDash

DashNext ==
    \/ HandleDateSelectionChange
    \/ RefreshDashboardData
    \/ ExportComprehensiveReport
    \/ MonthlySalesByBranch

(* ========================= RealtimeDataManager ========================= *)

\* self.max_buffer_size
max_buffer_size == 1000

\* the single points added, the long feeds, and the callbacks registered
MaxPoints == 3
MaxFeeds == 1
MaxCallbacks == 1

SeriesNames == {"ventas", "stock"}
PointValues == {10, 20}

\* defaultdict(list)
EmptyBuffer == [s \in SeriesNames |-> <<>>]

\* a buffer that never drops a point
AddWithoutLimit(buffer, series_name, timestamp, value) ==
    [buffer EXCEPT ![series_name] = Append(@, <<timestamp, value>>)]

\* add_data_point, lines 1250-1253: a full series loses its oldest point,
\* then the new point is appended
add_data_point(buffer, series_name, timestamp, value) ==
    LET kept == IF Len(buffer[series_name]) >= max_buffer_size
                THEN Tail(buffer[series_name])
                ELSE buffer[series_name]
    IN  [buffer EXCEPT ![series_name] = Append(kept, <<timestamp, value>>)]

\* add_data_point, lines 1256-1257: every registered callback is called
notify(calls) == [i \in 1..Len(calls) |-> calls[i] + 1]

\* get_latest_value: data[-1] if data else None
NoPoint == <<>>
get_latest_value(buffer, series_name) ==
    IF buffer[series_name] # <<>>
    THEN buffer[series_name][Len(buffer[series_name])]
    ELSE NoPoint

\* the points of all series added so far
PointsAdded(h) == Len(h["ventas"]) + Len(h["stock"])

\* n calls of add_data_point in a row, with timestamps from, from + 1, ...:
\* the first half of the calls, then the rest (the test on the series names,
\* which no call changes, has the first half computed before the rest)
RECURSIVE Feed(_, _, _, _, _)
Feed(buffer, series_name, from, n, value) ==
    IF n = 0 THEN buffer
    ELSE IF n = 1 THEN add_data_point(buffer, series_name, from, value)
    ELSE LET half == n \div 2
             fed == Feed(buffer, series_name, from, half, value)
         IN  IF DOMAIN fed = DOMAIN buffer
             THEN Feed(fed, series_name, from + half, n - half, value)
             ELSE fed

RtIdle ==
    /\ data_buffer = EmptyBuffer
    /\ update_callbacks = <<>>
    /\ callback_calls = <<>>
    /\ history = EmptyBuffer
    /\ registered_at = <<>>
    /\ feeds = -1

\* __init__
RtInit ==
    /\ data_buffer = EmptyBuffer
    /\ update_callbacks = <<>>
    /\ callback_calls = <<>>
    /\ history = EmptyBuffer
    /\ registered_at = <<>>
    /\ feeds = 0

\* one add_data_point; the timestamp is the number of the point in its series
AddDataPoint ==
    /\ feeds >= 0
    /\ PointsAdded(history) - feeds * max_buffer_size < MaxPoints
    /\ \E series_name \in SeriesNames, value \in PointValues :
        LET timestamp == Len(history[series_name]) + 1
        IN  /\ data_buffer' = add_data_point(data_buffer, series_name, timestamp, value)
            /\ history' = [history EXCEPT ![series_name] = Append(@, <<timestamp, value>>)]
    /\ callback_calls' = notify(callback_calls)
    /\ UNCHANGED <<update_callbacks, registered_at, feeds>>
    /\ UNCHANGED exceptRt

\* max_buffer_size calls of add_data_point in a row for one series
FeedSeries ==
    /\ feeds >= 0 /\ feeds < MaxFeeds
    /\ \E series_name \in SeriesNames :
        LET from == Len(history[series_name]) + 1
        IN  /\ data_buffer' = Feed(data_buffer, series_name, from, max_buffer_size, 10)
            /\ history' = [history EXCEPT ![series_name] =
                                @ \o [i \in 1..max_buffer_size |-> <<from + i - 1, 10>>]]
    /\ callback_calls' = [i \in 1..Len(callback_calls) |->
                            callback_calls[i] + max_buffer_size]
    /\ feeds' = feeds + 1
    /\ UNCHANGED <<update_callbacks, registered_at>>
    /\ UNCHANGED exceptRt

\* register_update_callback
RegisterUpdateCallback ==
    /\ feeds >= 0
    /\ Len(update_callbacks) < MaxCallbacks
    /\ update_callbacks' = Append(update_callbacks, Len(update_callbacks) + 1)
    /\ callback_calls' = Append(callback_calls, 0)
    /\ registered_at' = Append(registered_at, PointsAdded(history))
    /\ UNCHANGED <<data_buffer, history, feeds>>
    /\ UNCHANGED exceptRt

RtNext ==
    \/ AddDataPoint
    \/ FeedSeries
    \/ RegisterUpdateCallback

(* =========================== specifications ============================ *)

QueryInit == QbInit /\ AggIdle /\ TaxIdle /\ SalesIdle /\ DateIdle /\ ProcIdle /\ SearchIdle /\ AnimIdle /\ DocIdle /\ MainIdle /\ DashIdle /\ RtIdle
QueryNext == BuildSearchQuery

SpecQuery == QueryInit /\ [][QueryNext]_vars

AggregationInit == AggInit /\ QbIdle /\ TaxIdle /\ SalesIdle /\ DateIdle /\ ProcIdle /\ SearchIdle /\ AnimIdle /\ DocIdle /\ MainIdle /\ DashIdle /\ RtIdle

SpecAgg == AggregationInit /\ [][AggNext]_vars

TaxationInit == TaxInit /\ QbIdle /\ AggIdle /\ SalesIdle /\ DateIdle /\ ProcIdle /\ SearchIdle /\ AnimIdle /\ DocIdle /\ MainIdle /\ DashIdle /\ RtIdle

SpecTax == TaxationInit /\ [][TaxNext]_vars

SalesEntryInit == SalesInit /\ QbIdle /\ AggIdle /\ TaxIdle /\ DateIdle /\ ProcIdle /\ SearchIdle /\ AnimIdle /\ DocIdle /\ MainIdle /\ DashIdle /\ RtIdle

SpecSales == SalesEntryInit /\ [][SalesNext]_vars

DatesInit == DateInit /\ QbIdle /\ AggIdle /\ TaxIdle /\ SalesIdle /\ ProcIdle /\ SearchIdle /\ AnimIdle /\ DocIdle /\ MainIdle /\ DashIdle /\ RtIdle

SpecDates == DatesInit /\ [][DateNext]_vars

ProcessorInit == ProcInit /\ QbIdle /\ AggIdle /\ TaxIdle /\ SalesIdle /\ DateIdle /\ SearchIdle /\ AnimIdle /\ DocIdle /\ MainIdle /\ DashIdle /\ RtIdle

SpecProcessor == ProcessorInit /\ [][ProcNext]_vars

SearchDialogInit == (SearchIdle \/ DialogInit) /\ QbIdle /\ AggIdle /\ TaxIdle /\ SalesIdle /\ DateIdle /\ ProcIdle /\ AnimIdle /\ DocIdle /\ MainIdle /\ DashIdle /\ RtIdle

SpecSearch == SearchDialogInit /\ [][SearchNext]_vars

ChartsInit == AnimInit /\ QbIdle /\ AggIdle /\ TaxIdle /\ SalesIdle /\ DateIdle /\ ProcIdle /\ SearchIdle /\ DocIdle /\ MainIdle /\ DashIdle /\ RtIdle

SpecCharts == ChartsInit /\ [][AnimNext]_vars

DocumentsInit == (SalesInit /\ DocInit) /\ QbIdle /\ AggIdle /\ TaxIdle /\ DateIdle /\ ProcIdle /\ SearchIdle /\ AnimIdle /\ MainIdle /\ DashIdle /\ RtIdle

SpecDocuments == DocumentsInit /\ [][DocNext]_vars

ProgramInit == MainInit /\ QbIdle /\ AggIdle /\ TaxIdle /\ SalesIdle /\ DateIdle /\ ProcIdle /\ SearchIdle /\ AnimIdle /\ DocIdle /\ DashIdle /\ RtIdle

SpecMain == ProgramInit /\ [][MainNext]_vars

DashboardInit == DashInit /\ QbIdle /\ AggIdle /\ TaxIdle /\ SalesIdle /\ DateIdle /\ ProcIdle /\ SearchIdle /\ AnimIdle /\ DocIdle /\ MainIdle /\ RtIdle

SpecDashboard == DashboardInit /\ [][DashNext]_vars

RealtimeInit == RtInit /\ QbIdle /\ AggIdle /\ TaxIdle /\ SalesIdle /\ DateIdle /\ ProcIdle /\ SearchIdle /\ AnimIdle /\ DocIdle /\ MainIdle /\ DashIdle

SpecRealtime == RealtimeInit /\ [][RtNext]_vars

SearchLiveInit == DialogInit /\ QbIdle /\ AggIdle /\ TaxIdle /\ SalesIdle /\ DateIdle /\ ProcIdle /\ AnimIdle /\ DocIdle /\ MainIdle /\ DashIdle /\ RtIdle

\* time passes while the timer is pending, and a timeout that is due is
\* delivered
SpecSearchLive == SearchLiveInit /\ [][SearchLiveNext]_vars /\ WF_vars(AwaitTimeout) /\ WF_vars(ExecuteSearch)

(* =============================== claims ================================ *)

(* ---------------------------- C1 ---------------------------------------- *)

\* the shape of a filter object as the code reads it: whether both dates are
\* present and whether they are equal, the length of each list and whether
\* "Todo" is in it, and whether the document number is a str and is
\* non-empty once stripped
DateShape(f) ==
    IF f.start_date # <<>> /\ f.end_date # <<>>
    THEN (IF f.start_date = f.end_date THEN "equal" ELSE "range")
    ELSE "absent"

ListShape(list) == [n |-> Len(list), todo |-> HasTodo(list)]

Shape(f) ==
    [dates |-> DateShape(f),
     branches |-> ListShape(f.branches),
     document_types |-> ListShape(f.document_types),
     products |-> ListShape(f.products),
     doc |-> IF ~f.document_number.isStr THEN "notstr"
             ELSE IF Strip(f.document_number.text) # <<>> THEN "given"
             ELSE "blank"]

\* the shape as the claim words it: the document number is "given" when the
\* text is non-empty, stripped or not
ClaimShape(f) ==
    [Shape(f) EXCEPT !.doc = IF ~f.document_number.isStr THEN "notstr"
                              ELSE IF f.document_number.text # <<>> THEN "given"
                              ELSE "blank"]

\* one fixed filter object of each shape, built from the shape alone with
\* values that are no filter value of the model
RepList(ls) ==
    [i \in 1..ls.n |-> IF ls.todo /\ i = 1 THEN <<"Todo">> ELSE <<"x">>]

Rep(sh) ==
    [start_date |-> IF sh.dates = "absent" THEN <<>> ELSE <<"1999-01-01">>,
     end_date |-> IF sh.dates = "absent" THEN <<>>
                  ELSE IF sh.dates = "equal" THEN <<"1999-01-01">>
                  ELSE <<"1999-12-31">>,
     branches |-> RepList(sh.branches),
     document_types |-> RepList(sh.document_types),
     products |-> RepList(sh.products),
     document_number |-> IF sh.doc = "notstr" THEN NonStr
                         ELSE IF sh.doc = "given" THEN Str(<<"9">>)
                         ELSE Str(<<>>)]

\* the values of a filter object: its dates, its list members other than the
\* "Todo" marker, and its stripped document number
FilterValues(f) ==
    ({f.start_date, f.end_date}
        \cup {f.branches[i] : i \in 1..Len(f.branches)}
        \cup {f.document_types[i] : i \in 1..Len(f.document_types)}
        \cup {f.products[i] : i \in 1..Len(f.products)}
        \cup {Strip(f.document_number.text)})
    \ {<<>>}

Contributing(rows, branch, key) ==
    {i \in 1..Len(rows) :
        /\ rows[i].PuntoVenta = branch
        /\ SalesTypeOf(rows[i].Articulo) =
              (IF key = "Pellet (venta local)" THEN "Local" ELSE "Distribuidor")}

\* the exact sum of vals[i] over the rows i of I
RECURSIVE ExactSum(_, _)
ExactSum(vals, I) ==
    IF I = {} THEN DecZero
    ELSE LET i == CHOOSE j \in I : TRUE
         IN  ExactAdd(vals[i], ExactSum(vals, I \ {i}), DecimalCtx)

\* the per-row contributions
Quantities(rows) == [i \in 1..Len(rows) |-> rows[i].total_cantidad]
Tons(rows) == [i \in 1..Len(rows) |-> FDiv(rows[i].total_kilos, Thousand, DecimalCtx)]
Nets(rows) == [i \in 1..Len(rows) |-> rows[i].total_neto]
Grosses(rows) == [i \in 1..Len(rows) |-> rows[i].total_total]

SameValue(x, y) == Cmp(x, y, DecimalCtx) = 0

SameTotals(t, u) ==
    /\ SameValue(t.cantidad, u.cantidad)
    /\ SameValue(t.toneladas, u.toneladas)
    /\ SameValue(t.total_neto, u.total_neto)
    /\ SameValue(t.total_bruto, u.total_bruto)

BranchName(b) == IF b = "osorno" THEN "Osorno" ELSE "La Unión"

\* the totals are the sums of the contributions of the rows of that branch
\* and category
TotalsAreSums(result, rows) ==
    \A b \in {"osorno", "union"}, k \in ProductKeys :
        LET I == Contributing(rows, BranchName(b), k)
        IN  SameTotals(result[b][k],
                       [cantidad |-> ExactSum(Quantities(rows), I),
                        toneladas |-> ExactSum(Tons(rows), I),
                        total_neto |-> ExactSum(Nets(rows), I),
                        total_bruto |-> ExactSum(Grosses(rows), I)])

Permuted(rows, pi) == [i \in 1..Len(rows) |-> rows[pi[i]]]

\* the result is the same for every order of the rows
OrderIndependent(result, rows) ==
    \A pi \in Permutations(1..Len(rows)) :
        \A b \in {"osorno", "union"}, k \in ProductKeys :
            SameTotals(result[b][k],
                       process_branch_sales_data(Permuted(rows, pi))[b][k])

\* C2: the totals of each branch and category equal the sum of the per-row
\* contributions of exactly the rows of that branch and category, and the
\* result is the same for every permutation of the rows.
C2_SumOfContributions ==
    agg_pc = "done" =>
        /\ TotalsAreSums(agg_result, agg_rows)
        /\ OrderIndependent(agg_result, agg_rows)

(* ---------------------------- C3 ---------------------------------------- *)

\* x * radix^n
Scaled(x, n) == Num(x.neg, x.c, x.e + n)

\* |diff| <= |gross| * radix^(1 - prec): the rounding tolerance is one unit
\* in the last place of the working precision (10 digits for Decimal, 53
\* bits for float), relative to the gross amount
WithinTolerance(diff, gross, ctx) ==
    Cmp(Abs(Scaled(diff, ctx.prec - 1)), Abs(gross), ctx) <= 0

\* net * 1.19 = gross within tolerance, compared exactly as
\* net * 119 against gross * 100
InverseConsistent(gross, net, ctx) ==
    LET g100 == ExactMul(gross, FromInt(100, ctx), ctx)
    IN  WithinTolerance(
            ExactSub(ExactMul(net, FromInt(119, ctx), ctx), g100, ctx), g100, ctx)

\* net + tax = gross within tolerance
SumsToGross(gross, net, tax, ctx) ==
    WithinTolerance(ExactSub(ExactAdd(net, tax, ctx), gross, ctx), gross, ctx)

\* C3: every net amount derived as gross / 1.19 -- by
\* calculate_financial_metrics, by the per-product summaries and by the
\* sales form -- satisfies net * 1.19 = gross within one unit in the last
\* place of the working precision, and net + tax = gross within the same
\* tolerance wherever a tax is derived.
C3_TaxDecompositionConsistent ==
    /\ tax_result.kind = "metrics" =>
          LET m == tax_result.metrics
          IN  /\ ~IsZero(tax_input.exchange_rate) => m.bruto = tax_input.amount
              /\ InverseConsistent(m.bruto, m.neto, DecimalCtx)
              /\ SumsToGross(m.bruto, m.neto, m.iva, DecimalCtx)
    /\ tax_result.kind = "summary" =>
          \A p \in DOMAIN tax_result.summary :
              InverseConsistent(tax_result.summary[p].total_bruto,
                                tax_result.summary[p].total_neto, DecimalCtx)
    /\ tax_result.kind = "form" =>
          LET f == tax_result.form
              gross == FromInt(f.total_amount_label, FloatCtx)
          IN  /\ InverseConsistent(gross, f.net_amount_label, FloatCtx)
              /\ SumsToGross(gross, f.net_amount_label, f.tax_amount_label, FloatCtx)

\* the form has computed a credit note of two bags: the total is -17000
\* and net + tax misses it by a rounding error
C3_Witness ==
    /\ tax_pc = "done"
    /\ tax_result.kind = "form"
    /\ tax_result.form.total_amount_label = -17000
    /\ ~IsZero(ExactSub(ExactAdd(tax_result.form.net_amount_label,
                                 tax_result.form.tax_amount_label, FloatCtx),
                        FromInt(-17000, FloatCtx), FloatCtx))

(* ---------------------------- C10 --------------------------------------- *)

NonPositive(x) == IsZero(x) \/ x.neg

\* C10: a row inserted with document type "Credit Note" has quantity,
\* total weight, net amount, tax amount and total amount all <= 0.
C10_CreditNoteNonPositive ==
    last_insert.DocumentType = "Credit Note" =>
        /\ last_insert.Quantity <= 0
        /\ last_insert.TotalWeight <= 0
        /\ NonPositive(last_insert.NetAmount)
        /\ NonPositive(last_insert.TaxAmount)
        /\ last_insert.TotalAmount <= 0

\* a credit note of two bags was saved after the quantity was typed as an
\* invoice: the form's figures were positive, the row's are negative
C10_Witness ==
    /\ last_insert.DocumentType = "Credit Note"
    /\ last_insert.Quantity = -2
    /\ last_insert.TotalWeight = -30
    /\ last_insert.TotalAmount = -17000
    /\ last_insert.TaxAmount.neg

(* ---------------------------- C4 ---------------------------------------- *)

\* C4: validate_date_range returns True exactly when start <= end,
\* start >= business_start, end is not after today and the span is at most
\* 730 days (for arguments that are dates).
C4_ValidExactlyWhen ==
    [][ValidateDateRange /\ date_args.start_date # NoDate =>
          date_valid' =
              (/\ date_args.start_date <= date_args.end_date
               /\ date_args.start_date >= date_args.business_start
               /\ date_args.end_date <= today
               /\ date_args.end_date - date_args.start_date <= 730)]_vars

\* a range of exactly 730 days from the business start, ending today, was
\* accepted
C4_Witness ==
    /\ date_pc = "done"
    /\ date_valid
    /\ date_args.start_date = BusinessStart
    /\ date_args.end_date = BusinessStart + 730
    /\ today = date_args.end_date

(* ---------------------------- C5 ---------------------------------------- *)

Cached(call) ==
    /\ call.op \in {"get_sales_by_branch_data", "get_monthly_sales_by_branch_data"}
    /\ call.queried = <<>>

\* C5: a call returns a cached result only if less than cache_timeout
\* (300 seconds) has passed since the entry was stored; an entry stored 300
\* seconds or longer ago, a day or more included, is queried again.
C5_CacheTimeToLive ==
    Cached(last_call) => last_call.cache_age < 300

(* ---------------------------- C8 ---------------------------------------- *)

\* C8: every connection an operation opens is closed by the time it
\* returns, so between operations no connection is open.
C8_NoConnectionLeftOpen ==
    open_connections = 0

(* ---------------------------- C9 ---------------------------------------- *)

\* C9: when the connection or a query fails, get_sales_by_branch_data and
\* get_monthly_sales_by_branch_data return the empty structure: both
\* branches, both categories, every total zero.
C9_FailureGivesEmptyResult ==
    /\ last_call.op \in {"get_sales_by_branch_data", "get_monthly_sales_by_branch_data"}
    /\ \E i \in 1..Len(last_call.queried) : last_call.queried[i] # "ok"
    => last_call.returned = EmptyBranchData

(* --------------------------------- C6 ---------------------------------- *)

\* c is the letter of the keyword in either case
SameLetter(c, letter) ==
    \/ c = letter
    \/ \E n \in 1..26 : UpperLetters[n] = letter /\ LowerLetters[n] = c

\* value contains, case-insensitively, an entry of the denylist
Denied(value) ==
    \E k \in 1..Len(dangerous_keywords) :
        LET keyword == dangerous_keywords[k]
        IN  \E i \in 1..(Len(value) - Len(keyword) + 1) :
                \A j \in 1..Len(keyword) : SameLetter(value[i + j - 1], keyword[j])

\* a document number the dialog turns down
Rejected(doc_number) == doc_number # <<>> /\ ~validate_input(doc_number, "number")

\* C6: validate_input returns False for every non-empty text that contains
\* an entry of the denylist in any case; _execute_search sends a query only
\* when the document-number text, stripped of surrounding whitespace, is
\* empty or passes validate_input as a number; and when the stripped text is
\* rejected no query is sent and current_results is left as it was.
C6_KeywordsRejectedBeforeQuery ==
    /\ (last_validation.called /\ last_validation.value # <<>>
            /\ Denied(last_validation.value))
        => ~last_validation.result
    /\ (last_search.ran /\ last_search.queried)
        => \/ Strip(last_search.text) = <<>>
           \/ validate_input(Strip(last_search.text), "number")
    /\ (last_search.ran /\ Rejected(Strip(last_search.text)))
        => ~last_search.queried /\ last_search.after = last_search.before

\* a search with a keyword in the document number, turned down while results
\* of an earlier search are shown
C6_Witness ==
    /\ last_search.ran
    /\ Denied(last_search.text)
    /\ last_validation = Validation(last_search.text, "number")
    /\ ~last_search.queried
    /\ last_search.before # <<>>
    /\ last_search.after = last_search.before

\* C6 as stated: the text of the field itself, not stripped, is empty or
\* passes validate_input whenever a query is sent.
C6_Original ==
    /\ (last_validation.called /\ last_validation.value # <<>>
            /\ Denied(last_validation.value))
        => ~last_validation.result
    /\ (last_search.ran /\ last_search.queried)
        => \/ last_search.text = <<>>
           \/ validate_input(last_search.text, "number")
    /\ (last_search.ran /\ Rejected(last_search.text))
        => ~last_search.queried /\ last_search.after = last_search.before

(* --------------------------------- C7 ---------------------------------- *)

\* C7: since the last call of _trigger_search, _execute_search has run at
\* most once, and then 300 ms after that call; no search ran between two
\* calls of a burst (each less than 300 ms after the one before); and once
\* more than 300 ms have passed since the last call in the open dialog, the
\* search has run.
C7_SearchDebounced ==
    /\ debounce.searches <= 1
    /\ debounce.searches = 1 => debounce.delay = 300
    /\ ~debounce.interleaved
    /\ (dialog = "open" /\ debounce.calls > 0 /\ debounce.since_call > 300)
        => debounce.searches = 1

\* a burst of several calls, and the one search that followed it
C7_Witness ==
    /\ debounce.calls >= 2
    /\ debounce.searches = 1
    /\ debounce.delay = 300
    /\ debounce.since_call > 300

(* --------------------------------- C11 --------------------------------- *)

\* the signals emitted so far are what run() is to emit: a progress value
\* for each data point in turn, within 0..99 and never decreasing, then
\* animation_finished, once
EmitsInOrder(signals) ==
    /\ Len(signals) <= DataPoints + 1
    /\ \A k \in 1..Len(signals) :
        IF k <= DataPoints
        THEN /\ signals[k].signal = "progress_update"
             /\ signals[k].value \in 0..99
             /\ k > 1 => signals[k - 1].value <= signals[k].value
        ELSE signals[k].signal = "animation_finished"

\* C11: run() emits one progress_update per data point, non-decreasing and
\* within 0..99, then animation_finished exactly once; a thread that is no
\* longer running has emitted all of them; and the steps of the worker leave
\* the state of the window alone.
C11_WorkerPostsProgressThenFinishes ==
    /\ [](/\ EmitsInOrder(emitted)
          /\ animation_thread.state \in {"finished", "destroyed"}
                => Len(emitted) = DataPoints + 1)
    /\ [][(RunEmitProgress \/ RunEmitFinished)
            => UNCHANGED <<status_label, animation_enabled>>]_vars

(* --------------------------------- C12 --------------------------------- *)

\* C12: DailySales never holds two rows with the same document type and
\* number unless the number is "0"; and a submission of a document (number
\* other than "0") that DailySales already holds is turned down by
\* _validate_form_data and inserts nothing.
C12_NoDuplicateDocuments ==
    /\ \A key \in DocumentKeys : key[2] # <<"0">> => daily_sales[key] <= 1
    /\ (last_submission.submitted /\ last_submission.existed
            /\ last_submission.key[2] # <<"0">>)
        => ~last_submission.accepted /\ ~last_submission.inserted

\* a document was saved, and the same document submitted again was turned
\* down: DailySales holds it once
C12_Witness ==
    /\ last_submission.submitted
    /\ last_submission.key = <<"Credit Note", <<"7">>>>
    /\ last_submission.existed
    /\ ~last_submission.inserted
    /\ daily_sales[<<"Credit Note", <<"7">>>>] = 1
    /\ last_insert.DocumentType = "Credit Note"

(* --------------------------------- C13 --------------------------------- *)

\* C13: for a user whose privilege level is below 10, once the menu exists
\* the Sales Entry button is disabled, navigation_result is never
\* SALES_ENTRY and the sales-entry window is never opened.
C13_SalesEntryNeedsPrivilege ==
    (main_pc \notin {"login", "version", "menu"} /\ user_privilege < 10) =>
        /\ ~buttons.sales_entry
        /\ navigation_result # "SALES_ENTRY"
        /\ last_navigation.result # "SALES_ENTRY"
        /\ "IngresoVentasWindow" \notin open_windows

\* a user of privilege 9 has the daily sales open from the menu
C13_Witness ==
    /\ user_privilege = 9
    /\ main_pc = "exec"
    /\ open_windows = {"VentasDiariasWindow"}
    /\ ~buttons.sales_entry

(* --------------------------------- C14 --------------------------------- *)

\* the window that corresponds to a navigation result
Corresponding(result) ==
    IF result = "SALES_ENTRY" THEN "IngresoVentasWindow"
    ELSE IF result = "DAILY_SALES" THEN "VentasDiariasWindow"
    ELSE IF result = "UPDATE_SYSTEM" THEN "UpdateDialog"
    ELSE IF result = "SALES_SUMMARY" THEN "ResumenVentasWindow"
    ELSE "none"

\* C14: at most one secondary window is open; the window opened for a
\* navigation result is the one that corresponds to it, and it is open
\* exactly while the loop waits for it; and navigation_result is None when
\* control is back in the main loop after the window has closed.
C14_ModalNavigation ==
    /\ Cardinality(open_windows) <= 1
    /\ last_navigation.window = Corresponding(last_navigation.result)
    /\ open_windows =
        IF main_pc \in {"exec", "summary"} THEN {last_navigation.window} ELSE {}
    /\ (main_pc \in {"exec", "summary"}) <=> (last_navigation.after = "pending")
    /\ last_navigation.after \in {"pending", "None"}

\* the summary window was open, a button of the menu was clicked meanwhile,
\* and after it closed navigation_result is None in the main loop
C14_Witness ==
    /\ main_pc = "events"
    /\ last_navigation.result = "SALES_SUMMARY"
    /\ last_navigation.after = "None"
    /\ navigation_result = "None"
    /\ open_windows = {}
    /\ main_visible

(* --------------------------------- C16 --------------------------------- *)

\* C16: when the database version exists and differs from the application's,
\* main() goes on past the update notice: the System Update button is
\* enabled and the menu is shown and its loop entered; otherwise the button
\* is disabled; and navigation_result is UPDATE_SYSTEM only when an update
\* is available.
C16_UpdateNoticeAtStartup ==
    /\ (main_pc \notin {"login", "version", "menu"} /\ version_call.returned) =>
        IF UpdateAvailable(database_version)
        THEN buttons.system_update /\ main_pc # "raised"
        ELSE ~buttons.system_update
    /\ navigation_result = "UPDATE_SYSTEM" => UpdateAvailable(database_version)

(* --------------------------------- C17 --------------------------------- *)

\* C17: get_current_version returns (the latest version, or None); when the
\* connection cannot be established or the query fails it returns None
\* without raising, and it leaves open no cursor and no connection that it
\* opened.
C17_VersionOrNone ==
    version_call.called =>
        /\ version_call.returned
        /\ version_call.raised = "none"
        /\ version_call.outcome # "row" => version_call.value = NoVersion
        /\ ~version_call.connection_left_open
        /\ ~version_call.cursor_left_open

(* --------------------------------- C15 --------------------------------- *)

\* the calendar months from (year, month) to the month of e, in order
RECURSIVE MonthsFrom(_, _, _)
MonthsFrom(year, month, e) ==
    IF year > e.year \/ (year = e.year /\ month > e.month) THEN <<>>
    ELSE <<[year |-> year, month |-> month]>> \o
         (IF month = 12 THEN MonthsFrom(year + 1, 1, e)
          ELSE MonthsFrom(year, month + 1, e))

\* C15: a monthly aggregation that made its queries made one for every
\* calendar month from the month of start_date to the month of end_date,
\* each exactly once and none outside, also when the range crosses a year
\* boundary or spans more than a year.
C15_EveryMonthOnce ==
    monthly_load.source \in {"dashboard", "processor"} =>
        monthly_load.months =
            MonthsFrom(monthly_load.range.start_date.year,
                       monthly_load.range.start_date.month,
                       monthly_load.range.end_date)

(* --------------------------------- C20 --------------------------------- *)

\* a selection without Shift makes start_date the selected date and
\* end_date None
PlainSelectionResets ==
    \A date \in CalendarDates :
        (last_selection' = [date |-> date, shift |-> FALSE] /\ dashboard'.selected # dashboard.selected)
            => (dashboard'.start_date = date /\ dashboard'.end_date = NoQDate)

\* C20: whenever start_date and end_date are both set, start_date <=
\* end_date; and right after a selection without Shift, start_date is the
\* selected date and end_date is None.
C20_SelectionOrdered ==
    /\ [](dashboard.start_date # NoQDate /\ dashboard.end_date # NoQDate =>
            ~QDateLess(dashboard.end_date, dashboard.start_date))
    /\ [][PlainSelectionResets]_vars

\* a range completed with Shift on a date that lies before the start date
C20_Witness ==
    /\ last_selection = [date |-> Day(2024, 11, 20), shift |-> TRUE]
    /\ dashboard.start_date = Day(2024, 11, 20)
    /\ dashboard.end_date = Day(2025, 2, 3)

(* --------------------------------- C18 --------------------------------- *)

\* the %s placeholders of one piece of the query text
PlaceholdersIn(piece) ==
    CASE piece = "%s" -> 1
      [] piece = "Fecha = %s" -> 1
      [] piece = "Fecha BETWEEN %s AND %s" -> 2
      [] piece = "NumeroDocumento = %s" -> 1
      [] OTHER -> 0

RECURSIVE PlaceholderCount(_)
PlaceholderCount(text) ==
    IF text = <<>> THEN 0
    ELSE PlaceholdersIn(text[1]) + PlaceholderCount(Tail(text))

\* a list filter that is neither empty nor holds "Todo"
Restricts(list) == list # <<>> /\ \A i \in 1..Len(list) : list[i] # <<"Todo">>

\* the parameters in the order of the claim: dates, branches, document
\* types, products, document number
ParametersInOrder(f) ==
    (IF f.start_date = <<>> \/ f.end_date = <<>> THEN <<>>
     ELSE IF f.start_date = f.end_date THEN <<f.start_date>>
     ELSE <<f.start_date, f.end_date>>)
    \o f.branches
    \o (IF Restricts(f.document_types) THEN f.document_types ELSE <<>>)
    \o (IF Restricts(f.products) THEN f.products ELSE <<>>)
    \o (IF Strip(f.document_number.text) = <<>> THEN <<>>
        ELSE <<Strip(f.document_number.text)>>)

\* C18: the query has as many %s placeholders as the parameter tuple has
\* members; the parameters follow the order dates, branches, document
\* types, products, document number; and a list of document types or of
\* products that is empty or contains "Todo" adds neither a condition nor
\* parameters.
C18_PlaceholdersMatchParameters ==
    qb_pc = "done" =>
        /\ PlaceholderCount(qb_result.query) = Len(qb_result.parameters)
        /\ qb_filters.document_number.isStr =>
              qb_result.parameters = ParametersInOrder(qb_filters)
        /\ ~Restricts(qb_filters.document_types) =>
              ~Contains(qb_result.query, <<"TipoDocumento">>)
        /\ ~Restricts(qb_filters.products) =>
              ~Contains(qb_result.query, <<"Articulo">>)

\* a date range, two branches, "Todo" among the document types, one product
\* and a document number: six placeholders, six parameters
C18_Witness ==
    /\ qb_pc = "done"
    /\ qb_filters.start_date # <<>> /\ qb_filters.end_date # <<>>
    /\ qb_filters.start_date # qb_filters.end_date
    /\ Len(qb_filters.branches) = 2
    /\ Len(qb_filters.document_types) = 2 /\ HasTodo(qb_filters.document_types)
    /\ qb_filters.products = << <<"Pellet Bolsa 15 Kg (Retiro)">> >>
    /\ qb_filters.document_number = Str(<<"1", "2">>)
    /\ PlaceholderCount(qb_result.query) = 6
    /\ Len(qb_result.parameters) = 6

(* --------------------------------- C19 --------------------------------- *)

\* no filter of the object yields a condition
NoCondition(f) ==
    /\ f.start_date = <<>> \/ f.end_date = <<>>
    /\ f.branches = <<>>
    /\ ~Restricts(f.document_types)
    /\ ~Restricts(f.products)
    /\ Strip(f.document_number.text) = <<>>

\* C19: build_search_query always returns; when building fails it returns
\* the base query with "WHERE 1=0" and an empty tuple; and the query has
\* "1=1" exactly when building succeeded and the filter yields no condition.
C19_SafeFallback ==
    qb_pc = "done" =>
        /\ qb_result # NoResult
        /\ ~qb_filters.document_number.isStr =>
              /\ qb_result.query = base_query \o <<" WHERE 1=0">>
              /\ qb_result.parameters = <<>>
        /\ Contains(qb_result.query, <<"1=1">>) <=>
              (qb_filters.document_number.isStr /\ NoCondition(qb_filters))
        /\ Contains(qb_result.query, <<" WHERE 1=0">>) <=>
              ~qb_filters.document_number.isStr

\* a filter with dates and branches whose document number is not a str:
\* .strip() fails and the fallback is returned
C19_Witness ==
    /\ qb_pc = "done"
    /\ ~qb_filters.document_number.isStr
    /\ qb_filters.start_date # <<>> /\ qb_filters.end_date # <<>>
    /\ Len(qb_filters.branches) = 2
    /\ qb_result = [query |-> base_query \o <<" WHERE 1=0">>, parameters |-> <<>>]

(* --------------------------------- C21 --------------------------------- *)

\* the last n members of a sequence, or all of it
LastN(s, n) == IF Len(s) <= n THEN s ELSE SubSeq(s, Len(s) - n + 1, Len(s))

C22_ExportIffResults ==
    dialog # "none" => (export_button <=> current_results # <<>>)

\* results are shown and can be exported, and the last search sent no query
\* (rejected by the validation, or no cursor) and left them as they were
C22_Witness ==
    /\ dialog = "open"
    /\ export_button
    /\ current_results # <<>>
    /\ last_search.ran
    /\ ~last_search.queried
    /\ last_search.before = current_results

(* --------------------------------- C24 --------------------------------- *)

\* C24: once the dialog is closed, by the close event or by the Close
\* button, the debounce timer is not pending and the dialog's connection is
\* closed, and no _execute_search has run and no query has been sent since.
C24_ClosingCancels ==
    after_close.by # "none" =>
        /\ ~search_timer.active
        /\ database_connection = "closed"
        /\ ~after_close.searched
        /\ ~after_close.queried

(* --------------------------------- C23 --------------------------------- *)

\* C23: in the open dialog, a Search button that _trigger_search has
\* disabled and labelled as searching is eventually enabled again with its
\* idle label, whatever the search does, unless the dialog is closed first.
C23_SearchButtonReset ==
    (dialog = "open" /\ search_button = SearchingButton)
        ~> (search_button = IdleButton \/ dialog # "open")

\* the button is idle again after a search that the validation rejected
C23_Witness ==
    /\ dialog = "open"
    /\ search_button = IdleButton
    /\ debounce.searches = 1
    /\ last_search.ran
    /\ ~last_search.queried
    /\ date_filter.start_date > date_filter.end_date

====
